---- MODULE Spec2Model ----
(***************************************************************************)
(* Model of webhook-server/app.py: the survey submission store, the        *)
(* snapshot (CSV) loader, the attachment queries against the feature       *)
(* service, the aggregation helpers and the two report handlers            *)
(* (/report and /client-report).                                           *)
(*                                                                         *)
(* Text is modelled as TLA+ strings, character by character (Len, SubSeq,  *)
(* Head, Tail and \o act on strings).  A Python value that may be None is  *)
(* a tuple: <<>> is None and <<s>> is the str s.  A Python dict whose      *)
(* iteration order matters is a sequence of [k |-> key, v |-> value]       *)
(* entries in insertion order.                                             *)
(***************************************************************************)
EXTENDS Integers, Sequences, FiniteSets, TLC

(***************************************************************************)
(* Bounds of the model.                                                    *)
(***************************************************************************)
\* Most rows the submission store holds.
MaxRows == 3

\* Most object ids the id query of the feature service answers with.
MaxIds == 210

(***************************************************************************)
(* Python values and str methods.                                          *)
(***************************************************************************)
None == <<>>

S(s) == <<s>>

\* str(val) for a val that is a str
Str(v) == v[1]

\* bool(val): None and "" are falsy
Truthy(v) == v # None /\ Str(v) # ""

Whitespace == {" ", "\t", "\n", "\r", "\f"}

CharAt(s, i) == SubSeq(s, i, i)

SetMin(X) == CHOOSE a \in X : \A b \in X : a <= b

SetMax(X) == CHOOSE a \in X : \A b \in X : a >= b

\* str.strip()
Strip(s) ==
    LET inked == {i \in 1..Len(s) : CharAt(s, i) \notin Whitespace}
    IN  IF inked = {} THEN "" ELSE SubSeq(s, SetMin(inked), SetMax(inked))

RECURSIVE SplitFrom(_, _, _)
SplitFrom(s, sep, start) ==
    LET cuts == {i \in start..Len(s) : CharAt(s, i) = sep}
    IN  IF cuts = {} THEN <<SubSeq(s, start, Len(s))>>
        ELSE <<SubSeq(s, start, SetMin(cuts) - 1)>>
                 \o SplitFrom(s, sep, SetMin(cuts) + 1)

\* str.split(sep) for a one-character sep: always at least one piece
Split(s, sep) == SplitFrom(s, sep, 1)

UpperCase == "ABCDEFGHIJKLMNOPQRSTUVWXYZÃ"

LowerCase == "abcdefghijklmnopqrstuvwxyzã"

LowerChar(c) ==
    LET at == {i \in 1..Len(UpperCase) : CharAt(UpperCase, i) = c}
    IN  IF at = {} THEN c ELSE CharAt(LowerCase, SetMin(at))

RECURSIVE Lower(_)
\* str.lower()
Lower(s) == IF s = "" THEN "" ELSE LowerChar(Head(s)) \o Lower(Tail(s))

\* str.startswith(prefix)
StartsWith(s, prefix) ==
    Len(s) >= Len(prefix) /\ SubSeq(s, 1, Len(prefix)) = prefix

(***************************************************************************)
(* dict helpers.  attrs.get(key) on an attribute record (a function from   *)
(* field names to values), and the insertion-ordered label -> count dict.  *)
(***************************************************************************)
\* attrs.get(key)
Get(attrs, key) == IF key \in DOMAIN attrs THEN attrs[key] ELSE None

\* attrs.get(key, default)
GetOr(attrs, key, default) ==
    IF key \in DOMAIN attrs THEN attrs[key] ELSE default

Keys(d) == {d[i].k : i \in 1..Len(d)}

\* d.get(k, 0)
DictGet(d, k) ==
    IF k \in Keys(d)
    THEN d[CHOOSE i \in 1..Len(d) : d[i].k = k].v
    ELSE 0

\* d[k] = d.get(k, 0) + 1: a new key goes last, an old one keeps its place
DictInc(d, k) ==
    IF k \in Keys(d)
    THEN [i \in 1..Len(d) |-> IF d[i].k = k THEN [k |-> k, v |-> d[i].v + 1]
                                             ELSE d[i]]
    ELSE Append(d, [k |-> k, v |-> 1])

RECURSIVE SumValues(_)
\* sum(d.values())
SumValues(d) == IF d = <<>> THEN 0 ELSE Head(d).v + SumValues(Tail(d))

\* One step of a sort that keeps equal keys in their input order, but with
\* the new entry put before the entries of equal count.
InsertBeforeEqual(sorted, it) ==
    LET p == Cardinality({i \in 1..Len(sorted) : sorted[i].v > it.v})
    IN  SubSeq(sorted, 1, p) \o <<it>> \o SubSeq(sorted, p + 1, Len(sorted))

\* One step of sorted(..., key=lambda x: -x[1]): the entry goes after every
\* entry whose count is at least its own (the sort is stable).
InsertByNegValue(sorted, it) ==
    LET p == Cardinality({i \in 1..Len(sorted) : sorted[i].v >= it.v})
    IN  SubSeq(sorted, 1, p) \o <<it>> \o SubSeq(sorted, p + 1, Len(sorted))

RECURSIVE SortFrom(_, _)
SortFrom(done, rest) ==
    IF rest = <<>> THEN done
    ELSE SortFrom(InsertByNegValue(done, Head(rest)), Tail(rest))

\* The items left as they were inserted.
Unsorted(d) == d

\* dict(sorted(d.items(), key=lambda x: -x[1]))
SortedByNegValue(d) == SortFrom(<<>>, d)

(***************************************************************************)
(* The static tables of app.py.                                            *)
(***************************************************************************)
\* CATEGORY_LABELS (coded category -> label)
CATEGORY_LABELS ==
    "health_medical" :> "Health & Medical"
    @@ "finance_insurance" :> "Finance & Insurance"
    @@ "culture_art" :> "Culture & Art"
    @@ "life_convenience" :> "Life & Convenience"
    @@ "services_industry" :> "Services & Industry"
    @@ "shopping_distribution" :> "Shopping & Distribution"
    @@ "accommodation" :> "Accommodation"
    @@ "restaurants" :> "Restaurants"

\* STATUS_LABELS
STATUS_LABELS ==
    "open" :> "Open"
    @@ "closed" :> "Permanently Closed"
    @@ "temporary_closed" :> "Temporarily Closed"
    @@ "under_construction" :> "Under Construction"
    @@ "coming_soon" :> "Coming Soon"
    @@ "relocated" :> "Relocated"

\* PHOTO_TYPE_LABELS
PHOTO_TYPE_LABELS ==
    "entrance_photo" :> "Entrance"
    @@ "license_photo" :> "License"
    @@ "business_exterior" :> "Exterior (Primary)"
    @@ "exterior_photo_2" :> "Exterior (Secondary)"
    @@ "business_interior" :> "Interior (Primary)"
    @@ "interior_photo_2" :> "Interior (Secondary)"
    @@ "menu_photo_1" :> "Menu Photo 1"
    @@ "menu_photo_2" :> "Menu Photo 2"
    @@ "menu_photo_3" :> "Menu Photo 3"
    @@ "additional_photo" :> "Additional"
    @@ "interior_walkthrough_video" :> "Video (Walkthrough)"

\* CSV_CATEGORY_MAP (legacy free-text category -> label)
CSV_CATEGORY_MAP ==
    "Restaurant" :> "Restaurants"
    @@ "restaurants" :> "Restaurants"
    @@ "CafÃ©" :> "Restaurants"
    @@ "Coffee Shop" :> "Restaurants"
    @@ "Coffee Shops" :> "Restaurants"
    @@ "Bakery" :> "Restaurants"
    @@ "Cafe" :> "Restaurants"
    @@ "Dessert Shop" :> "Restaurants"
    @@ "Retail" :> "Shopping & Distribution"
    @@ "Shopping" :> "Shopping & Distribution"
    @@ "Grocery" :> "Shopping & Distribution"
    @@ "Fuel Stations" :> "Shopping & Distribution"
    @@ "Home Goods" :> "Shopping & Distribution"
    @@ "Corporate" :> "Services & Industry"
    @@ "Corporate Office" :> "Services & Industry"
    @@ "Automotive Services" :> "Services & Industry"
    @@ "Automotive Service" :> "Services & Industry"
    @@ "Automotive Repair" :> "Services & Industry"
    @@ "Car Rental" :> "Services & Industry"
    @@ "Repair Workshop" :> "Services & Industry"
    @@ "Construction" :> "Services & Industry"
    @@ "Construction Services" :> "Services & Industry"
    @@ "Contracting" :> "Services & Industry"
    @@ "Contractor" :> "Services & Industry"
    @@ "Engineering Consultancy" :> "Services & Industry"
    @@ "Energy and Utilities" :> "Services & Industry"
    @@ "Environmental Services" :> "Services & Industry"
    @@ "HVAC Services" :> "Services & Industry"
    @@ "Cleaning Service" :> "Services & Industry"
    @@ "Laundry" :> "Services & Industry"
    @@ "Laundry Service" :> "Services & Industry"
    @@ "Professional Services" :> "Services & Industry"
    @@ "Business Consulting" :> "Services & Industry"
    @@ "Legal Services" :> "Services & Industry"
    @@ "Real Estate" :> "Services & Industry"
    @@ "Real Estate Agency" :> "Services & Industry"
    @@ "Facilities Services" :> "Services & Industry"
    @@ "Home Services" :> "Services & Industry"
    @@ "Media company" :> "Services & Industry"
    @@ "Photography Studio" :> "Services & Industry"
    @@ "Services" :> "Services & Industry"
    @@ "Telecommunication" :> "Services & Industry"
    @@ "Telecommunications" :> "Services & Industry"
    @@ "Translation Service" :> "Services & Industry"
    @@ "Travel Agency" :> "Services & Industry"
    @@ "Event Planners" :> "Services & Industry"
    @@ "Event Planning" :> "Services & Industry"
    @@ "Event Venue" :> "Services & Industry"
    @@ "Education" :> "Life & Convenience"
    @@ "Educational Institution" :> "Life & Convenience"
    @@ "School" :> "Life & Convenience"
    @@ "Childcare" :> "Life & Convenience"
    @@ "Mosques" :> "Life & Convenience"
    @@ "Mosque" :> "Life & Convenience"
    @@ "Public Parks" :> "Life & Convenience"
    @@ "Park" :> "Life & Convenience"
    @@ "Neighborhood" :> "Life & Convenience"
    @@ "Residential Compound" :> "Life & Convenience"
    @@ "Transportation" :> "Life & Convenience"
    @@ "Government" :> "Life & Convenience"
    @@ "Government Services" :> "Life & Convenience"
    @@ "Public Services" :> "Life & Convenience"
    @@ "Emergency Services" :> "Life & Convenience"
    @@ "Non-profit organization" :> "Life & Convenience"
    @@ "Non-Profit Organization" :> "Life & Convenience"
    @@ "Healthcare" :> "Health & Medical"
    @@ "Hospitals" :> "Health & Medical"
    @@ "Medical Center" :> "Health & Medical"
    @@ "Medical Clinic" :> "Health & Medical"
    @@ "Clinic" :> "Health & Medical"
    @@ "Beauty Clinic" :> "Health & Medical"
    @@ "Pharmacies" :> "Health & Medical"
    @@ "Pharmacy" :> "Health & Medical"
    @@ "Health & Wellness Center" :> "Health & Medical"
    @@ "Beauty and Spa" :> "Health & Medical"
    @@ "Salon" :> "Health & Medical"
    @@ "Banks" :> "Finance & Insurance"
    @@ "Bank" :> "Finance & Insurance"
    @@ "Insurance Company" :> "Finance & Insurance"
    @@ "finance_insurance" :> "Finance & Insurance"
    @@ "Hotels and Accommodations" :> "Accommodation"
    @@ "Hotel" :> "Accommodation"
    @@ "Coworking Space" :> "Accommodation"
    @@ "Cultural Sites" :> "Culture & Art"
    @@ "Entertainment" :> "Entertainment & Sports"
    @@ "Sports" :> "Entertainment & Sports"
    @@ "Sports Club" :> "Entertainment & Sports"
    @@ "Gym" :> "Entertainment & Sports"

\* CSV_COL_MAP (snapshot column -> field name)
CSV_COL_MAP ==
    "GlobalID" :> "global_id"
    @@ "Name (Arabic)" :> "name_ar"
    @@ "Name (English)" :> "name_en"
    @@ "Legal Name" :> "legal_name"
    @@ "Category" :> "category"
    @@ "Secondary Category" :> "secondary_category"
    @@ "Company Status" :> "company_status"
    @@ "Working Days" :> "working_days"
    @@ "Working Hours" :> "working_hours_each_day"
    @@ "Break Time" :> "break_time_each_day"
    @@ "Holidays" :> "holidays"
    @@ "Entrance Location" :> "entrance_location"
    @@ "Building Number" :> "building_number"
    @@ "Floor Number" :> "floor_number"
    @@ "Phone Number" :> "phone_number"
    @@ "Website" :> "website"
    @@ "Social Media Accounts" :> "social_media"
    @@ "Accepted Payment Methods" :> "accepted_payment_methods"
    @@ "Commercial License Number" :> "commercial_license_number"
    @@ "Language" :> "language"
    @@ "Cuisine Type" :> "cuisine"
    @@ "Menu Barcode URL" :> "menu_barcode_url"
    @@ "Coordinates X" :> "latitude"
    @@ "Coordinates Y" :> "longitude"
    @@ "Dine In" :> "dine_in"
    @@ "Only Delivery" :> "only_delivery"
    @@ "Shisha" :> "shisha"
    @@ "Order from Car" :> "order_from_car"
    @@ "Live Sport Broadcasting" :> "live_sport_broadcasting"
    @@ "Family Seating" :> "has_family_seating"
    @@ "Large Groups Can Be Seated" :> "large_groups_can_be_seated"
    @@ "Has a Waiting Area" :> "has_a_waiting_area"
    @@ "Has Separate Rooms" :> "has_separate_rooms"
    @@ "Smoking Area" :> "has_smoking_area"
    @@ "Iftar Menu" :> "offers_iftar_menu"
    @@ "Suhoor" :> "is_open_during_suhoor"
    @@ "Require Ticket" :> "require_ticket"
    @@ "Is Landmark" :> "is_landmark"
    @@ "Free Entry" :> "free_entry"
    @@ "Has Women-Only Prayer Room" :> "has_women_only_prayer_room"
    @@ "Provides Iftar Tent" :> "provides_iftar_tent"
    @@ "Drive Thru" :> "drive_thru"
    @@ "WiFi" :> "wifi"
    @@ "Reservation" :> "reservation"
    @@ "Pickup Point Exists" :> "pickup_point_exists"
    @@ "Children Area" :> "children_area"
    @@ "Valet Parking" :> "valet_parking"
    @@ "Music" :> "music"
    @@ "Has Parking Lot" :> "has_parking_lot"
    @@ "Wheelchair Accessible" :> "is_wheelchair_accessible"
    @@ "District (English)" :> "district_en"
    @@ "District (Arabic)" :> "district_ar"
    @@ "City(english)" :> "city"
    @@ "POI ID" :> "poi_id"
    @@ "Detail Category" :> "detail_category"
    @@ "city(Arabic)" :> "address"
    @@ "Survey Date" :> "survey_date"
    @@ "Agent Name" :> "agent_name"
    @@ "Notes" :> "general_notes"

\* A category map that consults the coded table alone.
CodedCategoryMap == CATEGORY_LABELS

\* A category map in which a legacy name leads to another legacy name.
ChainedCategoryMap ==
    ("Cafe" :> "Coffee Shop") @@ CSV_CATEGORY_MAP @@ CATEGORY_LABELS

\* {**CATEGORY_LABELS, **CSV_CATEGORY_MAP}: on a shared key the second wins
\* A category map whose legacy entry for "restaurants" names another label.
DivergentCategoryMap ==
    ("restaurants" :> "Dining") @@ CSV_CATEGORY_MAP @@ CATEGORY_LABELS

ClientCategoryMap == CSV_CATEGORY_MAP @@ CATEGORY_LABELS

\* label_map=None
NoLabelMap == <<>>

(***************************************************************************)
(* Aggregation helpers.                                                    *)
(***************************************************************************)
\* A count that takes every value that is not None, blank or not.
CountNotNone(rows, key) ==
    Cardinality({i \in 1..Len(rows) : Get(rows[i], key) # None})

\* _count_attr(rows, key)
_count_attr(rows, key) ==
    Cardinality({i \in 1..Len(rows) :
        LET val == Get(rows[i], key)
        IN  val # None /\ Strip(Str(val)) # ""})

\* A lookup that files every unmapped value under one bucket.
LabelOrOther(val, label_map) ==
    IF val \in DOMAIN label_map THEN label_map[val] ELSE "Other"

\* label = val; if label_map and val in label_map: label = label_map[val]
Label(val, label_map) ==
    IF val \in DOMAIN label_map THEN label_map[val] ELSE val

RECURSIVE DistributionLoop(_, _, _, _)
\* the for loop of _distribution over rows, from the dict built so far
DistributionLoop(dist, rows, key, label_map) ==
    IF rows = <<>> THEN dist
    ELSE LET val == Get(Head(rows), key)
         IN  DistributionLoop(
                 IF val # None /\ Strip(Str(val)) # ""
                 THEN DictInc(dist, Label(Str(val), label_map))
                 ELSE dist,
                 Tail(rows), key, label_map)

\* _distribution(rows, key, label_map)
_distribution(rows, key, label_map) ==
    SortedByNegValue(DistributionLoop(<<>>, rows, key, label_map))

RECURSIVE TokenLoop(_, _)
\* for lang in str(lang_val).split(","): strip it, count it unless empty
TokenLoop(dist, tokens) ==
    IF tokens = <<>> THEN dist
    ELSE LET tok == Strip(Head(tokens))
         IN  TokenLoop(IF tok # "" THEN DictInc(dist, tok) ELSE dist,
                       Tail(tokens))

RECURSIVE SplitLoop(_, _, _)
\* for attrs in all_attrs: val = attrs.get(key, ""); if val: count its tokens
SplitLoop(dist, rows, key) ==
    IF rows = <<>> THEN dist
    ELSE LET val == GetOr(Head(rows), key, S(""))
         IN  SplitLoop(IF Truthy(val)
                       THEN TokenLoop(dist, Split(Str(val), ","))
                       ELSE dist,
                       Tail(rows), key)

\* A multi-valued distribution that counts each record's value whole.
whole_value_distribution(rows, key) ==
    _distribution(rows, key, NoLabelMap)

\* language_dist, cuisine_dist and payment_dist of both handlers
split_distribution(rows, key) ==
    SortedByNegValue(SplitLoop(<<>>, rows, key))

\* coords_answered: a latitude or corrected_lat, and a longitude or
\* corrected_lon
coords_answered(rows) ==
    Cardinality({i \in 1..Len(rows) :
        /\ Truthy(Get(rows[i], "latitude"))
               \/ Truthy(Get(rows[i], "corrected_lat"))
        /\ Truthy(Get(rows[i], "longitude"))
               \/ Truthy(Get(rows[i], "corrected_lon"))})

(***************************************************************************)
(* Inputs: the attribute blobs a webhook can store, the snapshot files     *)
(* that can be deployed beside the program, and the feature services.      *)
(***************************************************************************)
\* {}
EmptyAttrs == <<>>

Submitted1 ==
    [agent_name |-> S("Ali"), name_ar |-> S("Al Baik"),
     category |-> S("restaurants"), company_status |-> S("open"),
     language |-> S("Arabic, English, Arabic"),
     phone_number |-> S("0501"), is_landmark |-> S("yes"),
     working_days |-> S("Sun-Thu"),
     latitude |-> S("24.7"), longitude |-> S("46.6")]

Submitted2 ==
    [agent_name |-> S("Sara"), name_en |-> S("Brew"),
     category |-> S("Coffee Shop"), company_status |-> S("closed"),
     language |-> S("English,,Urdu "), cuisine |-> S("Saudi, Indian"),
     dine_in |-> S("no"), general_notes |-> S("None")]

Submitted3 ==
    [agent_name |-> S(" "), name_ar |-> S("None"), category |-> S(""),
     company_status |-> None, language |-> S(" , "), cuisine |-> None,
     website |-> S("\t"), latitude |-> S("24.7")]

Submitted4 ==
    [agent_name |-> S("Sara"), category |-> S("Restaurants"),
     company_status |-> S("Paused"), language |-> S("English"),
     accepted_payment_methods |-> S("Cash,Card,Cash"),
     identity_correct |-> S("yes"), offers_iftar_menu |-> S("maybe")]

\* feature.attributes of the payloads the webhook is sent
SubmittedAttrs == {Submitted1, Submitted2, Submitted3, Submitted4}

CsvRow1 ==
    "Category" :> S("CAFETERIA") @@ "Language" :> S("Arabic, English")
    @@ "Dine In" :> S("YES") @@ "Phone Number" :> S("N/A")
    @@ "Website" :> S("#ERROR!") @@ "Agent Name" :> S(" Ali ")
    @@ "Working Days" :> S("  ") @@ "Company Status" :> S("open")
    @@ "Survey Date" :> S("2026-01-05")

CsvRow2 ==
    "Category" :> S("Coffee Shop") @@ "Language" :> S("English")
    @@ "Dine In" :> S("No") @@ "Agent Name" :> S("Sara")
    @@ "Smoking Area" :> S("n/a") @@ "Notes" :> S("ok")
    @@ "Unmapped Column" :> S("x")

\* A row shorter than the header: csv.DictReader fills the rest with None.
CsvRowShort ==
    "Category" :> S("restaurants") @@ "Agent Name" :> S("Ali")
    @@ "Notes" :> None

\* A row whose category begins with "caf" in another spelling
CsvRowCaffe ==
    "Category" :> S(" Caffe Nero ") @@ "Agent Name" :> S("Sara")
    @@ "Dine In" :> S("yes")

NoFile == [exists |-> FALSE, readable |-> FALSE, rows |-> <<>>]

\* data/final_data.csv as it may be deployed: header only, two rows, a
\* short row, or bytes that do not decode as UTF-8
SnapshotFiles ==
    {[exists |-> TRUE, readable |-> TRUE, rows |-> <<>>],
     [exists |-> TRUE, readable |-> TRUE, rows |-> <<CsvRow1, CsvRow2>>],
     [exists |-> TRUE, readable |-> TRUE, rows |-> <<CsvRow1, CsvRowCaffe>>],
     [exists |-> TRUE, readable |-> TRUE, rows |-> <<CsvRow2, CsvRowShort>>],
     [exists |-> TRUE, readable |-> FALSE, rows |-> <<>>]}

Photo(kw) == [contentType |-> S("image/jpeg"), keywords |-> kw]

Video(kw) == [contentType |-> S("Video/MP4"), keywords |-> kw]

Pdf(kw) == [contentType |-> None, keywords |-> kw]

\* The feature layer: the object ids of the submitted features, in the
\* order the id query returns them, and the attachment groups it holds.
ServiceSmall ==
    [object_ids |-> <<1, 2, 3>>,
     groups |-> <<[parentObjectId |-> 1,
                   attachmentInfos |-> <<Photo(S("entrance_photo")),
                                         Photo(None),
                                         Video(S("interior_walkthrough_video"))>>],
                  [parentObjectId |-> 3,
                   attachmentInfos |-> <<Pdf(S("")),
                                         Photo(S("entrance_photo"))>>]>>]

Services == {ServiceSmall}

\* A null among the objectIds of an answer (object ids proper are positive)
NullId == 0

\* The attachment groups of a larger layer: features 1, 2, 101 and 150
\* hold attachments
LayerGroups ==
    <<[parentObjectId |-> 1,
       attachmentInfos |-> <<Photo(S("entrance_photo")),
                             Photo(S("interior_photo"))>>],
      [parentObjectId |-> 2,
       attachmentInfos |-> <<Pdf(S("license_photo"))>>],
      [parentObjectId |-> 101,
       attachmentInfos |-> <<Photo(S("interior_photo")),
                             Video(S("interior_walkthrough_video"))>>],
      [parentObjectId |-> 150,
       attachmentInfos |-> <<Photo(None)>>]>>

\* A layer of n submitted features with the object ids 1..n
Layer(n) == [object_ids |-> [i \in 1..n |-> i], groups |-> LayerGroups]

\* A layer whose id answer holds a null at place p among n entries
LayerWithNull(n, p) ==
    [object_ids |-> [i \in 1..n |-> IF i = p THEN NullId ELSE i],
     groups |-> LayerGroups]

\* The feature services the attachment queries are studied against
LayerServices ==
    {Layer(n) : n \in 0..MaxIds}
        \cup {LayerWithNull(3, 2), LayerWithNull(101, 50)}

(***************************************************************************)
(* State.                                                                  *)
(***************************************************************************)
VARIABLES
    db,          \* survey_submissions in submitted_at order: rows
                 \* [attributes |-> None or <<blob>>]
    csv_file,    \* the file at CSV_DATA_PATH
    svc,         \* the feature service the attachment queries go to
    handler,     \* the request being served: "none", "report", "client"
    pc,          \* where the handler stands
    all_attrs,   \* the handler's all_attrs
    csv_data,    \* client_report's csv_data: None or <<rows>>
    db_queried,  \* whether this request has queried the store
    token,       \* the token of this request: None or <<t>>
    object_ids,  \* the ids returned to this request
    offset,      \* i of the batch loop
    queries,     \* the objectIds of each attachment query sent so far
    acc,         \* the attachment counters accumulated so far
    att,         \* what the attachment function returned
    computed,    \* the distributions the handler computed
    response     \* the handler's response

vars == <<db, csv_file, svc, handler, pc, all_attrs, csv_data, db_queried,
          token, object_ids, offset, queries, acc, att, computed, response>>

envVars == <<db, csv_file, svc>>

attVars == <<token, object_ids, offset, queries, acc, att>>

\* A summary that already counts a photo.
OnePhotoAcc ==
    [total_photos |-> 1, total_videos |-> 0, by_keyword |-> <<>>,
     pois_with_photos |-> 1, pois_with_videos |-> 0, total_pois_queried |-> 0]

NoAcc ==
    [total_photos |-> 0, total_videos |-> 0, by_keyword |-> <<>>,
     pois_with_photos |-> 0, pois_with_videos |-> 0,
     total_pois_queried |-> 0]

NotReturned ==
    [none |-> FALSE, total_photos |-> 0, total_videos |-> 0,
     by_keyword |-> <<>>, pois_with_photos |-> 0, pois_with_videos |-> 0,
     total_pois_queried |-> 0]

NoResponse ==
    [status |-> 0, kind |-> "none", total_pois |-> 0, total_photos |-> 0,
     total_videos |-> 0, sections |-> <<>>]

\* jsonify({"status": "error", "message": str(e)}), 500
\* A failure that carries a section and a total.
ErrorWithContent ==
    [status |-> 500, kind |-> "error", total_pois |-> 1, total_photos |-> 0,
     total_videos |-> 0,
     sections |-> <<[title |-> "Agents", metrics |-> <<>>]>>]

ErrorResponse ==
    [status |-> 500, kind |-> "error", total_pois |-> 0, total_photos |-> 0,
     total_videos |-> 0, sections |-> <<>>]

Idle ==
    /\ handler = "none"
    /\ pc = "idle"

RequestInit ==
    /\ handler = "none"
    /\ pc = "idle"
    /\ all_attrs = <<>>
    /\ csv_data = None
    /\ db_queried = FALSE
    /\ token = None
    /\ object_ids = <<>>
    /\ offset = 0
    /\ queries = <<>>
    /\ acc = NoAcc
    /\ att = NotReturned
    /\ computed = <<>>
    /\ response = NoResponse

Init ==
    /\ db = <<>>
    /\ csv_file = NoFile
    /\ svc \in Services
    /\ RequestInit

(***************************************************************************)
(* The store and the snapshot file.                                        *)
(***************************************************************************)
InsertAt(rows, p, row) ==
    SubSeq(rows, 1, p - 1) \o <<row>> \o SubSeq(rows, p, Len(rows))

\* webhook(): one row is written, attributes = Json(attrs); the row's place
\* in submitted_at order is set by the payload's survey_datetime
Webhook ==
    /\ Idle
    /\ Len(db) < MaxRows
    /\ \E attrs \in SubmittedAttrs, p \in 1..(Len(db) + 1) :
           db' = InsertAt(db, p, [attributes |-> <<attrs>>])
    /\ UNCHANGED <<csv_file, svc, handler, pc, all_attrs, csv_data,
                   db_queried, computed, response>>
    /\ UNCHANGED attVars

\* A row whose attributes column is NULL (the column is nullable and the
\* table is shared with other writers).
RowWithoutAttributes ==
    /\ Idle
    /\ Len(db) < MaxRows
    /\ \E p \in 1..(Len(db) + 1) :
           db' = InsertAt(db, p, [attributes |-> None])
    /\ UNCHANGED <<csv_file, svc, handler, pc, all_attrs, csv_data,
                   db_queried, computed, response>>
    /\ UNCHANGED attVars

\* data/final_data.csv is deployed, replaced or removed
DeploySnapshot ==
    /\ Idle
    /\ \E f \in SnapshotFiles \cup {NoFile} :
           /\ f # csv_file
           /\ csv_file' = f
    /\ UNCHANGED <<db, svc, handler, pc, all_attrs, csv_data, db_queried,
                   computed, response>>
    /\ UNCHANGED attVars

(***************************************************************************)
(* _load_csv_data                                                          *)
(***************************************************************************)
\* The cell as it stands in the file.
RawCell(row, csv_col) == Str(GetOr(row, csv_col, S("")))

\* One cell of one row: row.get(csv_col, "").strip(), then the yes/no,
\* "N/A" and "#ERROR!" rules
CsvCell(row, csv_col) ==
    LET val == Strip(Str(GetOr(row, csv_col, S(""))))
    IN  IF val # "" /\ val # "#ERROR!"
        THEN IF Lower(val) \in {"yes", "no"} THEN Lower(val)
             ELSE IF val = "N/A" THEN ""
             ELSE val
        ELSE ""

\* The column each field is read from
ColumnOf ==
    [attr_key \in {CSV_COL_MAP[c] : c \in DOMAIN CSV_COL_MAP} |->
        CHOOSE c \in DOMAIN CSV_COL_MAP : CSV_COL_MAP[c] = attr_key]

\* The prefix test without the lowering.
IsCafAsWritten(cat) == StartsWith(cat, "caf")

\* cat.lower().startswith("caf")
IsCaf(cat) == StartsWith(Lower(cat), "caf")

\* attrs of one row, with the category fix-up
CsvAttrs(row) ==
    [attr_key \in DOMAIN ColumnOf |->
        IF attr_key = "category" /\ IsCaf(CsvCell(row, ColumnOf[attr_key]))
        THEN S("Cafe")
        ELSE S(CsvCell(row, ColumnOf[attr_key]))]

\* A cell that is None has no strip(): the loader raises
CsvRowRaises(row) ==
    \E c \in DOMAIN CSV_COL_MAP : c \in DOMAIN row /\ row[c] = None

\* _load_csv_data(): [raised, data], data None when the file is absent
_load_csv_data(file) ==
    IF ~file.exists THEN [raised |-> FALSE, data |-> None]
    ELSE IF ~file.readable
              \/ \E i \in 1..Len(file.rows) : CsvRowRaises(file.rows[i])
    THEN [raised |-> TRUE, data |-> None]
    ELSE [raised |-> FALSE,
          data |-> <<[i \in 1..Len(file.rows) |-> CsvAttrs(file.rows[i])]>>]

(***************************************************************************)
(* The handlers' first step: the record set.                               *)
(***************************************************************************)
\* r.get("attributes") or {}
AttrsOrEmpty(blob) == IF blob = None THEN EmptyAttrs ELSE blob[1]

\* all_attrs = [r.get("attributes") or {} for r in raw_rows]
LiveAttrs(rows) == [i \in 1..Len(rows) |-> AttrsOrEmpty(rows[i].attributes)]

\* A test that takes an empty snapshot for a missing one.
SnapshotNonEmpty(data) == data # None /\ data[1] # <<>>

\* if csv_data is not None
UseSnapshot(data) == data # None

\* report(): the store is queried; a failure of the store is answered 500
ReportLoad ==
    /\ Idle
    /\ handler' = "report"
    /\ db_queried' = TRUE
    /\ \/ /\ all_attrs' = LiveAttrs(db)
          /\ pc' = "token"
          /\ UNCHANGED response
       \/ /\ response' = ErrorResponse
          /\ pc' = "done"
          /\ UNCHANGED all_attrs
    /\ UNCHANGED <<csv_data, computed>>
    /\ UNCHANGED envVars
    /\ UNCHANGED attVars

\* client_report(): the snapshot when _load_csv_data returns one, else the
\* store; whatever is raised is answered 500
ClientLoad ==
    /\ Idle
    /\ handler' = "client"
    /\ \E loaded \in {_load_csv_data(csv_file)} :
           IF loaded.raised
           THEN /\ response' = ErrorResponse
                /\ pc' = "done"
                /\ UNCHANGED <<all_attrs, csv_data, db_queried>>
           ELSE /\ csv_data' = loaded.data
                /\ IF UseSnapshot(loaded.data)
                   THEN /\ all_attrs' = loaded.data[1]
                        /\ pc' = "token"
                        /\ UNCHANGED <<db_queried, response>>
                   ELSE /\ db_queried' = TRUE
                        /\ \/ /\ all_attrs' = LiveAttrs(db)
                              /\ pc' = "token"
                              /\ UNCHANGED response
                           \/ /\ response' = ErrorResponse
                              /\ pc' = "done"
                              /\ UNCHANGED all_attrs
    /\ UNCHANGED computed
    /\ UNCHANGED envVars
    /\ UNCHANGED attVars

(***************************************************************************)
(* The attachment queries: _get_arcgis_token, _get_attachment_counts       *)
(* (report) and _get_attachment_details (client_report).  Each call to     *)
(* the service is one step; the service may answer, answer with an error   *)
(* payload, or the call may raise.                                         *)
(***************************************************************************)
\* batch_size of _get_attachment_counts
batch_size == 100

\* the step of range(0, len(object_ids), 100) in _get_attachment_details
details_batch_size == 100

\* What an attachment function returned: none is the (None, None) of
\* _get_attachment_counts.
Returned(none, a) ==
    [none |-> none, total_photos |-> a.total_photos,
     total_videos |-> a.total_videos, by_keyword |-> a.by_keyword,
     pois_with_photos |-> a.pois_with_photos,
     pois_with_videos |-> a.pois_with_videos,
     total_pois_queried |-> a.total_pois_queried]

\* (att.get("contentType") or "").lower()
ContentType(info) ==
    LET ct == Get(info, "contentType")
    IN  Lower(IF Truthy(ct) THEN Str(ct) ELSE "")

\* The keyword tag as the service gave it, an absent one as "".
KeywordAsGiven(info) ==
    LET kw == Get(info, "keywords")
    IN  IF kw = None THEN "" ELSE Str(kw)

\* att.get("keywords") or "other"
Keyword(info) ==
    LET kw == Get(info, "keywords")
    IN  IF Truthy(kw) THEN Str(kw) ELSE "other"

IsPhoto(info) == StartsWith(ContentType(info), "image/")

IsVideo(info) == ~IsPhoto(info) /\ StartsWith(ContentType(info), "video/")

RECURSIVE CountInfos(_, _)
\* the inner loop of _get_attachment_counts over one group
CountInfos(a, infos) ==
    IF infos = <<>> THEN a
    ELSE LET info == Head(infos)
         IN  CountInfos(
                 IF IsPhoto(info)
                 THEN [a EXCEPT !.total_photos = @ + 1]
                 ELSE IF IsVideo(info)
                 THEN [a EXCEPT !.total_videos = @ + 1]
                 ELSE a,
                 Tail(infos))

RECURSIVE CountGroups(_, _)
\* for group in att_data.get("attachmentGroups", [])
CountGroups(a, groups) ==
    IF groups = <<>> THEN a
    ELSE CountGroups(CountInfos(a, Head(groups).attachmentInfos),
                     Tail(groups))

RECURSIVE DetailInfos(_, _)
\* the inner loop of _get_attachment_details over one group
DetailInfos(a, infos) ==
    IF infos = <<>> THEN a
    ELSE LET info == Head(infos)
             b == [a EXCEPT !.by_keyword = DictInc(@, Keyword(info))]
         IN  DetailInfos(
                 IF IsPhoto(info)
                 THEN [b EXCEPT !.total_photos = @ + 1]
                 ELSE IF IsVideo(info)
                 THEN [b EXCEPT !.total_videos = @ + 1]
                 ELSE b,
                 Tail(infos))

\* has_photo / has_video of one group
HasPhoto(group) ==
    \E i \in 1..Len(group.attachmentInfos) : IsPhoto(group.attachmentInfos[i])

\* A group counts as soon as it holds an attachment.
HasAttachment(group) == Len(group.attachmentInfos) > 0

HasVideo(group) ==
    \E i \in 1..Len(group.attachmentInfos) : IsVideo(group.attachmentInfos[i])

RECURSIVE DetailGroups(_, _)
\* for group in data.get("attachmentGroups", [])
DetailGroups(a, groups) ==
    IF groups = <<>> THEN a
    ELSE LET g == Head(groups)
             b == DetailInfos(a, g.attachmentInfos)
             c == [b EXCEPT
                     !.pois_with_photos = IF HasPhoto(g) THEN @ + 1 ELSE @,
                     !.pois_with_videos = IF HasVideo(g) THEN @ + 1 ELSE @]
         IN  DetailGroups(c, Tail(groups))

\* A slice that runs from i to the end of the list.
RestOfList(ids, i, size) == SubSeq(ids, i + 1, Len(ids))

\* object_ids[i : i + size]
Batch(ids, i, size) ==
    SubSeq(ids, i + 1, IF i + size < Len(ids) THEN i + size ELSE Len(ids))

InBatch(oid, batch) == \E j \in 1..Len(batch) : batch[j] = oid

IsInBatch(group, batch) == InBatch(group.parentObjectId, batch)

\* The service's answer to queryAttachments for the ids of one batch
GroupsOf(service, batch) ==
    LET at == {j \in 1..Len(service.groups) :
                   IsInBatch(service.groups[j], batch)}
        F[j \in 0..Len(service.groups)] ==
            IF j = 0 THEN <<>>
            ELSE IF j \in at THEN Append(F[j - 1], service.groups[j])
            ELSE F[j - 1]
    IN  F[Len(service.groups)]

\* An attachment function returns: the handler goes on to aggregate
Return(result) ==
    /\ att' = result
    /\ pc' = "assemble"

\* _get_arcgis_token(): None when the credentials are unset, the answer
\* holds no token or the call raises; without a token both attachment
\* functions return at once
GetToken ==
    /\ pc = "token"
    /\ \E t \in {None, S("token")} :
           /\ token' = t
           /\ IF t = None
              THEN Return(Returned(handler = "report", NoAcc))
              ELSE /\ pc' = "ids"
                   /\ UNCHANGED att
    /\ UNCHANGED <<handler, all_attrs, csv_data, db_queried, computed,
                   response, object_ids, offset, queries, acc>>
    /\ UNCHANGED envVars

\* The id query of either function: it raises, or it answers with the
\* ids (an error payload holds none)
QueryIds ==
    /\ pc = "ids"
    /\ \/ /\ Return(Returned(handler = "report", NoAcc))
          /\ UNCHANGED <<object_ids, acc>>
       \/ \E ids \in {svc.object_ids, <<>>} :
              /\ object_ids' = ids
              /\ IF ids = <<>>
                 THEN /\ Return(Returned(FALSE, NoAcc))
                      /\ UNCHANGED acc
                 ELSE /\ acc' = IF handler = "client"
                                THEN [NoAcc EXCEPT
                                        !.total_pois_queried = Len(ids)]
                                ELSE NoAcc
                      /\ pc' = "batch"
                      /\ UNCHANGED att
    /\ UNCHANGED <<handler, all_attrs, csv_data, db_queried, computed,
                   response, token, offset, queries>>
    /\ UNCHANGED envVars

\* One pass of the batch loop of _get_attachment_counts
CountsBatch ==
    /\ pc = "batch"
    /\ handler = "report"
    /\ LET batch == Batch(object_ids, offset, batch_size)
       IN  /\ queries' = Append(queries, batch)
           /\ \/ \* the call raises, or "error" in att_data
                 /\ Return(Returned(TRUE, NoAcc))
                 /\ UNCHANGED <<acc, offset>>
              \/ LET a == CountGroups(acc, GroupsOf(svc, batch))
                 IN  /\ acc' = a
                     /\ offset' = offset + batch_size
                     /\ IF offset + batch_size < Len(object_ids)
                        THEN UNCHANGED <<pc, att>>
                        ELSE Return(Returned(FALSE, a))
    /\ UNCHANGED <<handler, all_attrs, csv_data, db_queried, computed,
                   response, token, object_ids>>
    /\ UNCHANGED envVars

\* A pass of the loop that sends a failed batch a second time.
DetailsBatchRetry ==
    /\ pc = "batch"
    /\ handler = "client"
    /\ LET batch == Batch(object_ids, offset, details_batch_size)
       IN  /\ queries' = Append(queries, batch)
           /\ \/ /\ IF Len(queries) * details_batch_size <= offset
                    THEN UNCHANGED <<pc, att>>
                    ELSE Return(Returned(FALSE, acc))
                 /\ UNCHANGED <<acc, offset>>
              \/ LET a == DetailGroups(acc, GroupsOf(svc, batch))
                 IN  /\ acc' = a
                     /\ offset' = offset + details_batch_size
                     /\ IF offset + details_batch_size < Len(object_ids)
                        THEN UNCHANGED <<pc, att>>
                        ELSE Return(Returned(FALSE, a))
    /\ UNCHANGED <<handler, all_attrs, csv_data, db_queried, computed,
                   response, token, object_ids>>
    /\ UNCHANGED envVars

\* A pass of the loop that counts the attachments of a failed batch.
DetailsBatchCountingFailed ==
    /\ pc = "batch"
    /\ handler = "client"
    /\ LET batch == Batch(object_ids, offset, details_batch_size)
           a == DetailGroups(acc, GroupsOf(svc, batch))
       IN  /\ queries' = Append(queries, batch)
           /\ \/ /\ Return(Returned(FALSE, a))
                 /\ UNCHANGED <<acc, offset>>
              \/ /\ acc' = a
                 /\ offset' = offset + details_batch_size
                 /\ IF offset + details_batch_size < Len(object_ids)
                    THEN UNCHANGED <<pc, att>>
                    ELSE Return(Returned(FALSE, a))
    /\ UNCHANGED <<handler, all_attrs, csv_data, db_queried, computed,
                   response, token, object_ids>>
    /\ UNCHANGED envVars

\* One pass of the batch loop of _get_attachment_details
DetailsBatch ==
    /\ pc = "batch"
    /\ handler = "client"
    /\ LET batch == Batch(object_ids, offset, details_batch_size)
       IN  /\ queries' = Append(queries, batch)
           /\ \/ \* the call raises, or "error" in data: result as it stands
                 /\ Return(Returned(FALSE, acc))
                 /\ UNCHANGED <<acc, offset>>
              \/ LET a == DetailGroups(acc, GroupsOf(svc, batch))
                 IN  /\ acc' = a
                     /\ offset' = offset + details_batch_size
                     /\ IF offset + details_batch_size < Len(object_ids)
                        THEN UNCHANGED <<pc, att>>
                        ELSE Return(Returned(FALSE, a))
    /\ UNCHANGED <<handler, all_attrs, csv_data, db_queried, computed,
                   response, token, object_ids>>
    /\ UNCHANGED envVars

(***************************************************************************)
(* report(): the distributions, the sections and the JSON document.        *)
(***************************************************************************)
\* The label map of a distribution, by name
MapOf(map) ==
    CASE map = "category" -> CATEGORY_LABELS
      [] map = "status" -> STATUS_LABELS
      [] map = "client_category" -> ClientCategoryMap
      [] OTHER -> NoLabelMap

\* The distributions report() computes: variable, field, whether the
\* value is split on commas, and the label map
ReportDistributions ==
    <<<<"agent_dist", "agent_name", "single", "none">>,
      <<"category_dist", "category", "single", "category">>,
      <<"subcategory_dist", "secondary_category", "single", "none">>,
      <<"status_dist", "company_status", "single", "status">>,
      <<"location_correct_dist", "location_correct", "single", "none">>,
      <<"building_dist", "building_number", "single", "none">>,
      <<"floor_dist", "floor_number", "single", "none">>,
      <<"working_days_dist", "working_days", "single", "none">>,
      <<"working_hours_dist", "working_hours_each_day", "single", "none">>,
      <<"break_time_dist", "break_time_each_day", "single", "none">>,
      <<"identity_correct_dist", "identity_correct", "single", "none">>,
      <<"language_dist", "language", "multi", "none">>,
      <<"landmark_dist", "is_landmark", "single", "none">>,
      <<"pickup_dist", "pickup_point_exists", "single", "none">>,
      <<"physical_menu_dist", "has_physical_menu", "single", "none">>,
      <<"digital_menu_dist", "has_digital_menu", "single", "none">>,
      <<"cuisine_dist", "cuisine", "multi", "none">>,
      <<"payment_dist", "accepted_payment_methods", "multi", "none">>,
      <<"parking_dist", "has_parking_lot", "single", "none">>,
      <<"valet_dist", "valet_parking", "single", "none">>,
      <<"drive_thru_dist", "drive_thru", "single", "none">>,
      <<"wheelchair_dist", "is_wheelchair_accessible", "single", "none">>,
      <<"wifi_dist", "wifi", "single", "none">>,
      <<"dine_in_dist", "dine_in", "single", "none">>,
      <<"delivery_dist", "only_delivery", "single", "none">>,
      <<"family_dist", "has_family_seating", "single", "none">>,
      <<"separate_rooms_dist", "has_separate_rooms_for_dining", "single", "none">>,
      <<"large_groups_dist", "large_groups_can_be_seated", "single", "none">>,
      <<"order_car_dist", "order_from_car", "single", "none">>,
      <<"music_dist", "music", "single", "none">>,
      <<"sports_dist", "live_sport_broadcasting", "single", "none">>,
      <<"shisha_dist", "shisha", "single", "none">>,
      <<"children_dist", "children_area", "single", "none">>,
      <<"smoking_dist", "has_smoking_area", "single", "none">>,
      <<"waiting_dist", "has_a_waiting_area", "single", "none">>,
      <<"reservation_dist", "reservation", "single", "none">>,
      <<"prayer_dist", "has_women_only_prayer_room", "single", "none">>,
      <<"iftar_dist", "offers_iftar_menu", "single", "none">>,
      <<"suhoor_dist", "is_open_during_suhoor", "single", "none">>,
      <<"iftar_tent_dist", "provides_iftar_tent", "single", "none">>,
      <<"ticket_dist", "require_ticket", "single", "none">>,
      <<"free_entry_dist", "is_free_entry", "single", "none">>>>

\* One distribution of a handler, kept with what it was computed from
ComputeOne(rows, spec) ==
    [name |-> spec[1], key |-> spec[2], kind |-> spec[3], map |-> spec[4],
     dist |-> IF spec[3] = "multi"
              THEN split_distribution(rows, spec[2])
              ELSE _distribution(rows, spec[2], MapOf(spec[4]))]

Compute(rows, specs) == [i \in 1..Len(specs) |-> ComputeOne(rows, specs[i])]

\* The distribution held by a variable of the handler
Dist(c, name) == c[CHOOSE i \in 1..Len(c) : c[i].name = name].dist

\* A metric of a section: a distribution or a count
D(name, dist) == [name |-> name, kind |-> "dict", d |-> dist, n |-> 0]

N(name, n) == [name |-> name, kind |-> "int", d |-> <<>>, n |-> n]

\* add_section's filter: not an empty dict, not the int 0
Kept(m) ==
    /\ ~(m.kind = "dict" /\ Len(m.d) = 0)
    /\ ~(m.kind = "int" /\ m.n = 0)

\* add_section without the test of filtered.
add_section_always(sections, title, data_dict) ==
    Append(sections, [title |-> title, metrics |-> SelectSeq(data_dict, Kept)])

\* add_section putting the new section before the ones it has.
add_section_first(sections, title, data_dict) ==
    LET filtered == SelectSeq(data_dict, Kept)
    IN  IF filtered # <<>>
        THEN <<[title |-> title, metrics |-> filtered]>> \o sections
        ELSE sections

\* add_section(title, data_dict)
add_section(sections, title, data_dict) ==
    LET filtered == SelectSeq(data_dict, Kept)
    IN  IF filtered # <<>>
        THEN Append(sections, [title |-> title, metrics |-> filtered])
        ELSE sections

\* The add_section calls of report(), in order: each title with its
\* data_dict
report_sections(c, rows, total_videos) ==
    <<[title |-> "Agents",
       data |-> <<D("agent_distribution", Dist(c, "agent_dist"))>>],
      [title |-> "1. Identity & Names",
       data |-> <<N("names_arabic_collected", _count_attr(rows, "name_ar")),
                  N("names_english_collected", _count_attr(rows, "name_en")),
                  D("identity_correct", Dist(c, "identity_correct_dist"))>>],
      [title |-> "2. Category",
       data |-> <<D("category_distribution", Dist(c, "category_dist")),
                  D("subcategory_distribution", Dist(c, "subcategory_dist"))>>],
      [title |-> "3. Company Status",
       data |-> <<D("status_distribution", Dist(c, "status_dist"))>>],
      [title |-> "4. Commercial License",
       data |-> <<N("licenses_collected", _count_attr(rows, "commercial_license_number")),
                  N("license_photos_taken", _count_attr(rows, "license_photo"))>>],
      [title |-> "5. Coordinates",
       data |-> <<N("pois_with_coordinates", coords_answered(rows)),
                  D("location_correct", Dist(c, "location_correct_dist"))>>],
      [title |-> "6. Building & Floor",
       data |-> <<D("building_distribution", Dist(c, "building_dist")),
                  D("floor_distribution", Dist(c, "floor_dist"))>>],
      [title |-> "7. Entrance",
       data |-> <<N("entrance_photos_taken", _count_attr(rows, "entrance_photo")),
                  N("entrance_descriptions", _count_attr(rows, "entrance_description"))>>],
      [title |-> "8. Contact Info",
       data |-> <<N("phone_numbers_collected", _count_attr(rows, "phone_number")),
                  N("websites_collected", _count_attr(rows, "website")),
                  N("social_media_collected", _count_attr(rows, "social_media"))>>],
      [title |-> "9. Language, Landmark & Pickup",
       data |-> <<D("languages_distribution", Dist(c, "language_dist")),
                  D("is_landmark", Dist(c, "landmark_dist")),
                  D("pickup_point_exists", Dist(c, "pickup_dist"))>>],
      [title |-> "10. Working Hours",
       data |-> <<D("working_days_distribution", Dist(c, "working_days_dist")),
                  D("working_hours_distribution", Dist(c, "working_hours_dist")),
                  D("break_time_distribution", Dist(c, "break_time_dist"))>>],
      [title |-> "11. Business Exterior Photos",
       data |-> <<N("exterior_photos_taken", _count_attr(rows, "business_exterior")
                 + _count_attr(rows, "exterior_photo_2"))>>],
      [title |-> "12. Business Interior Photos",
       data |-> <<N("interior_photos_taken", _count_attr(rows, "business_interior")
                 + _count_attr(rows, "interior_photo_2"))>>],
      [title |-> "13. Interior Walkthrough Video",
       data |-> <<N("videos_taken", total_videos)>>],
      [title |-> "14. Physical Menu Photos",
       data |-> <<D("has_physical_menu", Dist(c, "physical_menu_dist")),
                  N("menu_photos_taken", _count_attr(rows, "menu_photo_1")
                 + _count_attr(rows, "menu_photo_2")
                 + _count_attr(rows, "menu_photo_3"))>>],
      [title |-> "15. Digital Menu / QR",
       data |-> <<D("has_digital_menu", Dist(c, "digital_menu_dist"))>>],
      [title |-> "16. Cuisine",
       data |-> <<D("cuisine_distribution", Dist(c, "cuisine_dist"))>>],
      [title |-> "17. Payment Methods",
       data |-> <<D("payment_distribution", Dist(c, "payment_dist"))>>],
      [title |-> "18. Parking & Valet",
       data |-> <<D("has_parking", Dist(c, "parking_dist")),
                  D("valet_parking", Dist(c, "valet_dist")),
                  D("drive_thru", Dist(c, "drive_thru_dist"))>>],
      [title |-> "19. Accessibility & WiFi",
       data |-> <<D("wheelchair_accessible", Dist(c, "wheelchair_dist")),
                  D("wifi_available", Dist(c, "wifi_dist"))>>],
      [title |-> "20. Seating",
       data |-> <<D("dine_in", Dist(c, "dine_in_dist")),
                  D("only_delivery", Dist(c, "delivery_dist")),
                  D("family_seating", Dist(c, "family_dist")),
                  D("separate_dining_rooms", Dist(c, "separate_rooms_dist")),
                  D("large_groups", Dist(c, "large_groups_dist")),
                  D("order_from_car", Dist(c, "order_car_dist"))>>],
      [title |-> "21. Entertainment",
       data |-> <<D("music", Dist(c, "music_dist")),
                  D("live_sports", Dist(c, "sports_dist")),
                  D("shisha", Dist(c, "shisha_dist")),
                  D("children_area", Dist(c, "children_dist"))>>],
      [title |-> "22. Smoking & Waiting",
       data |-> <<D("smoking_area", Dist(c, "smoking_dist")),
                  D("waiting_area", Dist(c, "waiting_dist")),
                  D("reservation", Dist(c, "reservation_dist"))>>],
      [title |-> "23. Prayer Rooms",
       data |-> <<D("women_prayer_room", Dist(c, "prayer_dist"))>>],
      [title |-> "24. Iftar & Suhoor",
       data |-> <<D("offers_iftar", Dist(c, "iftar_dist")),
                  D("open_during_suhoor", Dist(c, "suhoor_dist")),
                  D("iftar_tent", Dist(c, "iftar_tent_dist"))>>],
      [title |-> "25. Attraction / Special",
       data |-> <<D("require_ticket", Dist(c, "ticket_dist")),
                  D("free_entry", Dist(c, "free_entry_dist"))>>],
      [title |-> "Notes",
       data |-> <<N("submissions_with_notes", _count_attr(rows, "general_notes"))>>]>>

RECURSIVE AddSections(_, _)
\* the add_section calls one after another
AddSections(sections, todo) ==
    IF todo = <<>> THEN sections
    ELSE AddSections(add_section(sections, Head(todo).title, Head(todo).data),
                     Tail(todo))

\* The photos counted so far, whatever was returned.
PhotosHeld(returned) == acc.total_photos

\* arcgis_photos if arcgis_photos is not None else 0
PhotosOrZero(returned) == IF returned.none THEN 0 ELSE returned.total_photos

\* arcgis_videos if arcgis_videos is not None else 0
VideosOrZero(returned) == IF returned.none THEN 0 ELSE returned.total_videos

\* report(), from the attachment counts to jsonify(report_data), 200
ReportAssemble ==
    /\ pc = "assemble"
    /\ handler = "report"
    /\ computed' = Compute(all_attrs, ReportDistributions)
    /\ response' =
           [status |-> 200, kind |-> "json",
            total_pois |-> Len(all_attrs),
            total_photos |-> PhotosOrZero(att),
            total_videos |-> VideosOrZero(att),
            sections |-> AddSections(<<>>,
                report_sections(computed', all_attrs, VideosOrZero(att)))]
    /\ pc' = "done"
    /\ UNCHANGED <<handler, all_attrs, csv_data, db_queried>>
    /\ UNCHANGED envVars
    /\ UNCHANGED attVars

(***************************************************************************)
(* client_report(): the distributions, the counts and the styled document. *)
(* The document is modelled by its section blocks: each *_sec is no block  *)
(* ("") or one block, named by its h2 heading, with the values it shows.   *)
(***************************************************************************)
\* The distributions client_report() computes
ClientDistributions ==
    <<<<"agent_dist", "agent_name", "single", "none">>,
      <<"category_dist", "category", "single", "client_category">>,
      <<"subcategory_dist", "secondary_category", "single", "none">>,
      <<"status_dist", "company_status", "single", "status">>,
      <<"identity_correct_dist", "identity_correct", "single", "none">>,
      <<"working_days_dist", "working_days", "single", "none">>,
      <<"working_hours_dist", "working_hours_each_day", "single", "none">>,
      <<"break_time_dist", "break_time_each_day", "single", "none">>,
      <<"parking_dist", "has_parking_lot", "single", "none">>,
      <<"valet_dist", "valet_parking", "single", "none">>,
      <<"drive_thru_dist", "drive_thru", "single", "none">>,
      <<"wheelchair_dist", "is_wheelchair_accessible", "single", "none">>,
      <<"wifi_dist", "wifi", "single", "none">>,
      <<"dine_in_dist", "dine_in", "single", "none">>,
      <<"delivery_dist", "only_delivery", "single", "none">>,
      <<"family_dist", "has_family_seating", "single", "none">>,
      <<"large_groups_dist", "large_groups_can_be_seated", "single", "none">>,
      <<"order_car_dist", "order_from_car", "single", "none">>,
      <<"music_dist", "music", "single", "none">>,
      <<"children_dist", "children_area", "single", "none">>,
      <<"shisha_dist", "shisha", "single", "none">>,
      <<"physical_menu_dist", "has_physical_menu", "single", "none">>,
      <<"digital_menu_dist", "has_digital_menu", "single", "none">>,
      <<"location_correct_dist", "location_correct", "single", "none">>,
      <<"building_dist", "building_number", "single", "none">>,
      <<"floor_dist", "floor_number", "single", "none">>,
      <<"smoking_dist", "has_smoking_area", "single", "none">>,
      <<"waiting_dist", "has_a_waiting_area", "single", "none">>,
      <<"reservation_dist", "reservation", "single", "none">>,
      <<"prayer_dist", "has_women_only_prayer_room", "single", "none">>,
      <<"pickup_dist", "pickup_point_exists", "single", "none">>,
      <<"iftar_dist", "offers_iftar_menu", "single", "none">>,
      <<"suhoor_dist", "is_open_during_suhoor", "single", "none">>,
      <<"language_dist", "language", "multi", "none">>,
      <<"payment_dist", "accepted_payment_methods", "multi", "none">>,
      <<"cuisine_dist", "cuisine", "multi", "none">>>>

\* dist.get("yes", 0) and yn(dist): "" when the dist holds no yes and no no
Yes(dist) == DictGet(dist, "yes")

YesOrNo(dist) == DictGet(dist, "yes") + DictGet(dist, "no")

\* metric(lbl, yn(d)) for each d whose yn(d) is not ""
YnMetrics(c, pairs) ==
    LET F[j \in 0..Len(pairs)] ==
            IF j = 0 THEN <<>>
            ELSE IF YesOrNo(Dist(c, pairs[j][2])) # 0
            THEN Append(F[j - 1], N(pairs[j][1], Yes(Dist(c, pairs[j][2]))))
            ELSE F[j - 1]
    IN  F[Len(pairs)]

\* quality_fields
quality_fields ==
    << <<"Arabic Name", "name_ar">>, <<"English Name", "name_en">>,
       <<"Category", "category">>, <<"Subcategory", "secondary_category">>,
       <<"Status", "company_status">>, <<"Phone Number", "phone_number">>,
       <<"Website", "website">>, <<"Working Days", "working_days">>,
       <<"Working Hours", "working_hours_each_day">>,
       <<"Social Media", "social_media">> >>

\* cnt of quality_data, one per quality field
quality_counts(rows) ==
    [j \in 1..Len(quality_fields) |->
        N(quality_fields[j][1], _count_attr(rows, quality_fields[j][2]))]

\* The quotient scaled by 1000.
PerMille(cnt, total) ==
    IF total > 0 THEN [num |-> cnt * 1000, den |-> total]
    ELSE [num |-> 0, den |-> 1]

\* A quotient taken whatever the divisor; a zero divisor stays in it.
UnguardedPercent(cnt, total) == [num |-> cnt * 100, den |-> total]

\* cnt / total * 100 if total > 0 else 0.  The float is kept as the exact
\* fraction num/den (0 is 0/1); a fraction with den = 0 is a division by
\* zero.  How the page formats the number is left out.
Percent(cnt, total) ==
    IF total > 0 THEN [num |-> cnt * 100, den |-> total]
    ELSE [num |-> 0, den |-> 1]

RECURSIVE total_filled(_, _)
\* total_filled after the first j quality fields
total_filled(rows, j) ==
    IF j = 0 THEN 0
    ELSE total_filled(rows, j - 1)
             + _count_attr(rows, quality_fields[j][2])

\* quality_data's rates and overall_quality
quality(rows) ==
    [rates |-> [j \in 1..Len(quality_fields) |->
                   Percent(_count_attr(rows, quality_fields[j][2]), Len(rows))],
     overall |-> Percent(total_filled(rows, Len(quality_fields)),
                         Len(quality_fields) * Len(rows))]

\* The counts client_report() shows, with the override for snapshot data
\* (int(total_pois * 0.92) is the floor of 92 hundredths)
ClientCounts(rows, data) ==
    IF UseSnapshot(data)
    THEN [name_ar_count |-> Len(rows), name_en_count |-> Len(rows),
          identity_correct_dist |-> <<[k |-> "yes", v |-> Len(rows)]>>,
          license_count |-> Len(rows), phone_count |-> Len(rows),
          website_count |-> Len(rows),
          social_count |-> (Len(rows) * 92) \div 100]
    ELSE [name_ar_count |-> _count_attr(rows, "name_ar"),
          name_en_count |-> _count_attr(rows, "name_en"),
          identity_correct_dist |->
              _distribution(rows, "identity_correct", NoLabelMap),
          license_count |-> _count_attr(rows, "commercial_license_number"),
          phone_count |-> _count_attr(rows, "phone_number"),
          website_count |-> _count_attr(rows, "website"),
          social_count |-> _count_attr(rows, "social_media")]

Block(title, metrics) == <<[title |-> title, metrics |-> metrics]>>

NoBlock == <<>>

agents_sec(c) == Block("1. Agent Performance", <<D("agent", Dist(c, "agent_dist"))>>)

category_sec(c) ==
    Block("2. POI Category Analysis",
          <<D("By Category", Dist(c, "category_dist")),
            D("By Subcategory", Dist(c, "subcategory_dist"))>>)

status_sec(c) ==
    IF Dist(c, "status_dist") # <<>>
    THEN Block("3. Business Status", <<D("status", Dist(c, "status_dist"))>>)
    ELSE NoBlock

identity_sec(n) ==
    Block("4. Identity & Contact Coverage",
          <<N("Arabic Names", n.name_ar_count),
            N("English Names", n.name_en_count),
            N("Identity Verified", Yes(n.identity_correct_dist)),
            N("Licenses Collected", n.license_count),
            N("Phone Numbers", n.phone_count),
            N("Websites", n.website_count),
            N("Social Media", n.social_count)>>)

location_sec(c, rows) ==
    IF SumValues(Dist(c, "location_correct_dist")) > 0
           \/ coords_answered(rows) > 0
    THEN Block("5. Location & Coordinates",
               <<N("Location Verified Correct",
                   Yes(Dist(c, "location_correct_dist"))),
                 N("Coordinates Collected", coords_answered(rows))>>)
    ELSE NoBlock

building_sec(c) ==
    IF Dist(c, "building_dist") # <<>> \/ Dist(c, "floor_dist") # <<>>
    THEN Block("6. Building & Floor",
               <<D("Building Number", Dist(c, "building_dist")),
                 D("Floor", Dist(c, "floor_dist"))>>)
    ELSE NoBlock

hours_sec(c) ==
    IF Dist(c, "working_days_dist") # <<>>
           \/ Dist(c, "working_hours_dist") # <<>>
    THEN Block("7. Working Hours Patterns",
               <<D("Working Days", Dist(c, "working_days_dist")),
                 D("Daily Hours", Dist(c, "working_hours_dist")),
                 D("Break Times", Dist(c, "break_time_dist"))>>)
    ELSE NoBlock

language_sec(c) ==
    IF Dist(c, "language_dist") # <<>>
    THEN Block("8. Languages Spoken", <<D("language", Dist(c, "language_dist"))>>)
    ELSE NoBlock

payment_sec(c) ==
    IF Dist(c, "payment_dist") # <<>>
    THEN Block("9. Payment Methods", <<D("payment", Dist(c, "payment_dist"))>>)
    ELSE NoBlock

restaurant_sec(c) ==
    IF \/ Dist(c, "cuisine_dist") # <<>>
       \/ Dist(c, "physical_menu_dist") # <<>>
       \/ Dist(c, "dine_in_dist") # <<>>
    THEN Block("10. Restaurant & F&B Analysis",
               <<D("Cuisine Types", Dist(c, "cuisine_dist"))>>
               \o (IF Dist(c, "physical_menu_dist") # <<>>
                   THEN <<N("Has Physical Menu",
                            Yes(Dist(c, "physical_menu_dist")))>>
                   ELSE <<>>)
               \o (IF Dist(c, "digital_menu_dist") # <<>>
                   THEN <<N("Has Digital Menu / QR",
                            Yes(Dist(c, "digital_menu_dist")))>>
                   ELSE <<>>)
               \o YnMetrics(c, << <<"Dine-in", "dine_in_dist">>,
                                  <<"Family Seating", "family_dist">>,
                                  <<"Large Groups", "large_groups_dist">>,
                                  <<"Delivery Only", "delivery_dist">>,
                                  <<"Order from Car", "order_car_dist">> >>))
    ELSE NoBlock

facility_parts_left(c) ==
    YnMetrics(c, << <<"Has Parking", "parking_dist">>,
                    <<"Valet Parking", "valet_dist">>,
                    <<"Drive-Thru", "drive_thru_dist">>,
                    <<"Wheelchair Accessible", "wheelchair_dist">>,
                    <<"WiFi Available", "wifi_dist">> >>)

facility_parts_right(c) ==
    YnMetrics(c, << <<"Music", "music_dist">>,
                    <<"Children Area", "children_dist">>,
                    <<"Shisha", "shisha_dist">>,
                    <<"Smoking Area", "smoking_dist">>,
                    <<"Waiting Area", "waiting_dist">>,
                    <<"Reservations", "reservation_dist">>,
                    <<"Women Prayer Room", "prayer_dist">>,
                    <<"Pickup Point", "pickup_dist">> >>)

facilities_sec(c) ==
    IF facility_parts_left(c) # <<>> \/ facility_parts_right(c) # <<>>
    THEN Block("11. Facilities & Amenities",
               facility_parts_left(c) \o facility_parts_right(c))
    ELSE NoBlock

ramadan_sec(c) ==
    IF Dist(c, "iftar_dist") # <<>> \/ Dist(c, "suhoor_dist") # <<>>
    THEN Block("12. Ramadan Services",
               (IF Dist(c, "iftar_dist") # <<>>
                THEN <<N("Offers Iftar Menu", Yes(Dist(c, "iftar_dist")))>>
                ELSE <<>>)
               \o (IF Dist(c, "suhoor_dist") # <<>>
                   THEN <<N("Open During Suhoor", Yes(Dist(c, "suhoor_dist")))>>
                   ELSE <<>>))
    ELSE NoBlock

media_sec(returned) ==
    Block("13. Media Documentation",
          <<N("Total Photos", returned.total_photos),
            N("Total Videos", returned.total_videos),
            D("Breakdown by Type", SortedByNegValue(returned.by_keyword))>>)

quality_sec(rows, returned) ==
    Block("14. Data Quality Assessment",
          <<N("POIs in Database", Len(rows)),
            N("POIs on Service", returned.total_pois_queried)>>
          \o quality_counts(rows))

notes_sec(rows) ==
    IF _count_attr(rows, "general_notes") > 0
    THEN Block("15. General Notes",
               <<N("Submissions with Notes", _count_attr(rows, "general_notes"))>>)
    ELSE NoBlock

\* body, without the header, the KPI cards and the footer
body(c, n, rows, returned) ==
    agents_sec(c) \o category_sec(c) \o status_sec(c) \o identity_sec(n)
    \o location_sec(c, rows) \o building_sec(c) \o hours_sec(c)
    \o language_sec(c) \o payment_sec(c) \o restaurant_sec(c)
    \o facilities_sec(c) \o ramadan_sec(c) \o media_sec(returned)
    \o quality_sec(rows, returned) \o notes_sec(rows)

\* client_report(), from the attachment details to make_response(full_html)
ClientAssemble ==
    /\ pc = "assemble"
    /\ handler = "client"
    /\ computed' = Compute(all_attrs, ClientDistributions)
    /\ \E n \in {ClientCounts(all_attrs, csv_data)} :
           response' =
               [status |-> 200, kind |-> "html",
                total_pois |-> Len(all_attrs),
                total_photos |-> att.total_photos,
                total_videos |-> att.total_videos,
                quality |-> quality(all_attrs),
                sections |-> body(computed', n, all_attrs, att)]
    /\ pc' = "done"
    /\ UNCHANGED <<handler, all_attrs, csv_data, db_queried>>
    /\ UNCHANGED envVars
    /\ UNCHANGED attVars

\* A response after which the attachment counts of the request stay.
RespondKeepingCounts ==
    /\ pc = "done"
    /\ handler' = "none"
    /\ pc' = "idle"
    /\ all_attrs' = <<>>
    /\ csv_data' = None
    /\ db_queried' = FALSE
    /\ token' = None
    /\ object_ids' = <<>>
    /\ offset' = 0
    /\ queries' = <<>>
    /\ computed' = <<>>
    /\ response' = NoResponse
    /\ UNCHANGED <<acc, att>>
    /\ UNCHANGED envVars

\* The response is sent; nothing of the request is kept
Respond ==
    /\ pc = "done"
    /\ handler' = "none"
    /\ pc' = "idle"
    /\ all_attrs' = <<>>
    /\ csv_data' = None
    /\ db_queried' = FALSE
    /\ token' = None
    /\ object_ids' = <<>>
    /\ offset' = 0
    /\ queries' = <<>>
    /\ acc' = NoAcc
    /\ att' = NotReturned
    /\ computed' = <<>>
    /\ response' = NoResponse
    /\ UNCHANGED envVars

Next ==
    \/ Webhook
    \/ RowWithoutAttributes
    \/ DeploySnapshot
    \/ ReportLoad
    \/ ClientLoad
    \/ GetToken
    \/ QueryIds
    \/ CountsBatch
    \/ DetailsBatch
    \/ ReportAssemble
    \/ ClientAssemble
    \/ Respond

Spec == Init /\ [][Next]_vars

\* The handlers over an empty store without a snapshot, against feature
\* layers of every size up to MaxIds
InitAtt ==
    /\ db = <<>>
    /\ csv_file = NoFile
    /\ svc \in LayerServices
    /\ RequestInit

NextAtt ==
    \/ ReportLoad
    \/ ClientLoad
    \/ GetToken
    \/ QueryIds
    \/ CountsBatch
    \/ DetailsBatch
    \/ ReportAssemble
    \/ ClientAssemble
    \/ Respond

SpecAtt == InitAtt /\ [][NextAtt]_vars

(***************************************************************************)
(* Properties.                                                             *)
(***************************************************************************)
\* A handler has answered 200: its record set, its distributions and its
\* response are all in the state.
Answered(h) ==
    /\ pc = "done"
    /\ handler = h
    /\ response.status = 200

AnsweredAny == pc = "done" /\ response.status = 200

\* The records each snapshot file holds, as the loader shapes them (none
\* when reading it raises)
RecordsOfFile ==
    [f \in SnapshotFiles |->
        IF ~f.readable \/ \E i \in 1..Len(f.rows) : CsvRowRaises(f.rows[i])
        THEN <<>>
        ELSE [i \in 1..Len(f.rows) |-> CsvAttrs(f.rows[i])]]

SnapshotRecords == RecordsOfFile[csv_file]

\* The raw text of a field of a record, when it counts as collected
Collected(attrs, key) ==
    Get(attrs, key) # None /\ Strip(Str(Get(attrs, key))) # ""

\* The rows of all_attrs whose field key is collected
CollectedRows(key) ==
    {r \in 1..Len(all_attrs) : Collected(all_attrs[r], key)}

\* The label a raw value is to be counted under: the mapped label when the
\* raw value is a key of the map, else the raw value itself
Expected(raw, M) == IF raw \in DOMAIN M THEN M[raw] ELSE raw

\* The rows counted under label L by the distribution entry e
RowsUnder(e, L) ==
    {r \in CollectedRows(e.key) :
        Expected(Str(Get(all_attrs[r], e.key)), MapOf(e.map)) = L}

NonEmptyString(x) == x # ""

\* The tokens of a multi-valued field of a record, left to right
TokensOf(attrs, key) ==
    IF key \in DOMAIN attrs /\ Truthy(attrs[key])
    THEN LET pieces == Split(Str(attrs[key]), ",")
         IN  SelectSeq([j \in 1..Len(pieces) |-> Strip(pieces[j])],
                       NonEmptyString)
    ELSE <<>>

RECURSIVE TokenSeq(_, _)
\* The tokens of a multi-valued field over the records, in the order the
\* records and their tokens are iterated
TokenSeq(rows, key) ==
    IF rows = <<>> THEN <<>>
    ELSE TokensOf(Head(rows), key) \o TokenSeq(Tail(rows), key)

\* The places of a token sequence at which token t stands
Occurrences(tokens, t) == {j \in 1..Len(tokens) : tokens[j] = t}

\* The first place at which the distribution entry e met label L: the row
\* for a single-valued field, the place in the token sequence for a
\* multi-valued one
FirstSeen(e, L) ==
    IF e.kind = "multi"
    THEN SetMin(Occurrences(TokenSeq(all_attrs, e.key), L))
    ELSE SetMin(RowsUnder(e, L))

\* The raw category values of the record set, row by row ("" when absent)
CategoryValues ==
    [r \in 1..Len(all_attrs) |->
        IF Truthy(Get(all_attrs[r], "category"))
        THEN Str(Get(all_attrs[r], "category")) ELSE ""]

\* Scenario A: the category values are "restaurants", "Coffee Shop" and ""
ScenarioA ==
    /\ Len(all_attrs) = 3
    /\ {CategoryValues[r] : r \in 1..3} = {"restaurants", "Coffee Shop", ""}

\* C1: in a client-report request the records come from one source: from
\* the snapshot, with the store never queried, when the snapshot file
\* exists; from the store (each row's blob, {} for a null blob) when it
\* does not.  A request that failed holds no records.
C1_OneSource ==
    (handler = "client" /\ pc # "idle") =>
        /\ csv_file.exists =>
               /\ ~db_queried
               /\ \/ response.status = 500 /\ all_attrs = <<>>
                  \/ all_attrs = SnapshotRecords
        /\ ~csv_file.exists =>
               /\ db_queried
               /\ \/ response.status = 500 /\ all_attrs = <<>>
                  \/ all_attrs = LiveAttrs(db)

\* C1 witness: a client report answered from a snapshot of two rows while
\* the store holds rows too.
C1_Witness ==
    /\ Answered("client")
    /\ csv_file.exists
    /\ Len(all_attrs) = 2
    /\ Len(db) > 0
    /\ ~db_queried

\* C2: for every single-valued distribution a handler computed, the sum of
\* its counts is _count_attr of the same rows and field, with or without a
\* label map.
C2_SumIsCount ==
    AnsweredAny =>
        \A i \in 1..Len(computed) :
            computed[i].kind = "single" =>
                SumValues(computed[i].dist)
                    = _count_attr(all_attrs, computed[i].key)

\* C2 witness: a label map merged two different raw values into one label,
\* and a blank value was counted by neither.
C2_Witness ==
    /\ Answered("client")
    /\ \E i \in 1..Len(computed) :
           /\ computed[i].map = "client_category"
           /\ \E j \in 1..Len(computed[i].dist) :
                  Cardinality({Str(Get(all_attrs[r], "category")) :
                      r \in RowsUnder(computed[i], computed[i].dist[j].k)}) >= 2
           /\ Cardinality(CollectedRows("category")) < Len(all_attrs)

\* C3: every distribution a handler computed, single-valued or split on
\* commas, lists its labels in non-increasing order of count.
C3_NonIncreasing ==
    AnsweredAny =>
        \A i \in 1..Len(computed) :
            \A j \in 1..(Len(computed[i].dist) - 1) :
                computed[i].dist[j].v >= computed[i].dist[j + 1].v

\* C3 witness: a distribution whose labels were met in another order than
\* the one it lists them in.
C3_Witness ==
    /\ AnsweredAny
    /\ \E i \in 1..Len(computed) :
           /\ computed[i].kind = "single"
           /\ Len(computed[i].dist) >= 2
           /\ computed[i].dist[1].v > computed[i].dist[2].v
           /\ FirstSeen(computed[i], computed[i].dist[1].k)
                  > FirstSeen(computed[i], computed[i].dist[2].k)

\* C4: in every distribution two neighbouring labels of equal count stand
\* in the order in which they were first met while iterating the records
\* (and the tokens of a record left to right).
C4_TiesInEncounterOrder ==
    AnsweredAny =>
        \A i \in 1..Len(computed) :
            \A j \in 1..(Len(computed[i].dist) - 1) :
                computed[i].dist[j].v = computed[i].dist[j + 1].v =>
                    FirstSeen(computed[i], computed[i].dist[j].k)
                        < FirstSeen(computed[i], computed[i].dist[j + 1].k)

\* C4 witness: a multi-valued distribution with two labels of equal count
\* that were first met in one and the same record, and a single-valued one
\* with a tie between two records.
C4_Witness ==
    /\ AnsweredAny
    /\ \E i \in 1..Len(computed) :
           /\ computed[i].kind = "multi"
           /\ \E j \in 1..(Len(computed[i].dist) - 1) :
                  /\ computed[i].dist[j].v = computed[i].dist[j + 1].v
                  /\ \E r \in 1..Len(all_attrs) :
                         {computed[i].dist[j].k, computed[i].dist[j + 1].k}
                             = {TokensOf(all_attrs[r], computed[i].key)[t] :
                                  t \in 1..Len(TokensOf(all_attrs[r],
                                                        computed[i].key))}
    /\ \E i \in 1..Len(computed) :
           /\ computed[i].kind = "single"
           /\ \E j \in 1..(Len(computed[i].dist) - 1) :
                  computed[i].dist[j].v = computed[i].dist[j + 1].v

\* A metric that is a non-empty distribution or a non-zero count
HasData(m) ==
    \/ m.kind = "dict" /\ Len(m.d) > 0
    \/ m.kind = "int" /\ m.n # 0

Titles(sections) == {sections[k].title : k \in 1..Len(sections)}

\* C5: in the JSON report a section is in "sections" only if one of its
\* metrics has data; a section none of whose metrics has data is not in
\* it; and every metric of an emitted section has data.
C5_OnlySectionsWithData ==
    Answered("report") =>
        /\ \A k \in 1..Len(response.sections) :
               /\ Len(response.sections[k].metrics) >= 1
               /\ \A j \in 1..Len(response.sections[k].metrics) :
                      HasData(response.sections[k].metrics[j])
        /\ \E all \in {report_sections(computed, all_attrs,
                                       response.total_videos)} :
               \A k \in 1..Len(all) :
                   (\A j \in 1..Len(all[k].data) : ~HasData(all[k].data[j]))
                       => all[k].title \notin Titles(response.sections)

\* C5 witness: a JSON report with some sections emitted and others dropped,
\* one of the emitted ones having lost a metric without data.
C5_Witness ==
    /\ Answered("report")
    /\ Len(response.sections) \in 2..20
    /\ \E k \in 1..Len(response.sections) :
           /\ response.sections[k].title = "1. Identity & Names"
           /\ Len(response.sections[k].metrics) < 3

\* The attachment summary holds nothing
AllZero(returned) ==
    /\ returned.total_photos = 0
    /\ returned.total_videos = 0
    /\ returned.by_keyword = <<>>
    /\ returned.pois_with_photos = 0
    /\ returned.pois_with_videos = 0
    /\ returned.total_pois_queried = 0

\* C6: in the styled report, with an empty record set and an all-zero
\* attachment summary, no section block is rendered.
C6_EmptyStyledReportHasNoSection ==
    (Answered("client") /\ all_attrs = <<>> /\ AllZero(att)) =>
        response.sections = <<>>

\* C7: in every single-valued distribution each collected raw value is
\* counted under its mapped label when it is a key of the map and under
\* itself when it is not (or no map is given): the labels are exactly the
\* expected ones and each counts exactly the rows expected under it.
C7_PassThrough ==
    AnsweredAny =>
        \A i \in 1..Len(computed) :
            computed[i].kind = "single" =>
                /\ Keys(computed[i].dist)
                       = {Expected(Str(Get(all_attrs[r], computed[i].key)),
                                   MapOf(computed[i].map)) :
                             r \in CollectedRows(computed[i].key)}
                /\ \A j \in 1..Len(computed[i].dist) :
                       computed[i].dist[j].v
                           = Cardinality(RowsUnder(computed[i],
                                                   computed[i].dist[j].k))

\* C7 witness: under the status map a mapped code and an unmapped value
\* in one distribution, the unmapped one under its own text.
C7_Witness ==
    /\ AnsweredAny
    /\ \E i \in 1..Len(computed) :
           /\ computed[i].map = "status"
           /\ "Paused" \in Keys(computed[i].dist)
           /\ "Open" \in Keys(computed[i].dist)

Range(M) == {M[k] : k \in DOMAIN M}

\* Sample values that are neither keys nor labels of a table
OtherValues == {"", "Zoo", "OPEN", "restaurant", "Paused"}

\* normalize(normalize(x, M), M) = normalize(x, M) for the keys and the
\* labels of M and for other values
Idempotent(M) ==
    \A x \in DOMAIN M \cup Range(M) \cup OtherValues :
        Label(Label(x, M), M) = Label(x, M)

\* The three tables the reports use are idempotent and none has a label
\* among its keys
TablesIdempotent ==
    /\ Idempotent(CATEGORY_LABELS)
    /\ Idempotent(STATUS_LABELS)
    /\ Idempotent(ClientCategoryMap)
    /\ Range(CATEGORY_LABELS) \cap DOMAIN CATEGORY_LABELS = {}
    /\ Range(STATUS_LABELS) \cap DOMAIN STATUS_LABELS = {}
    /\ Range(ClientCategoryMap) \cap DOMAIN ClientCategoryMap = {}

\* C8: normalization is idempotent for each table the reports use: no
\* label of CATEGORY_LABELS, STATUS_LABELS or the merged category table is
\* a key of that table, and every label a report lists is normalized to
\* itself.
C8_Idempotent ==
    /\ TablesIdempotent
    /\ AnsweredAny =>
           \A i \in 1..Len(computed) :
               computed[i].map # "none" =>
                   \A j \in 1..Len(computed[i].dist) :
                       Label(computed[i].dist[j].k, MapOf(computed[i].map))
                           = computed[i].dist[j].k

\* C8 witness: a client report whose records hold a legacy name, a coded
\* category and an already canonical label, all listed under one label.
C8_Witness ==
    /\ Answered("client")
    /\ {"Coffee Shop", "restaurants", "Restaurants"}
           \subseteq {CategoryValues[r] : r \in 1..Len(all_attrs)}
    /\ Dist(computed, "category_dist") = <<[k |-> "Restaurants", v |-> 3]>>

\* Every legacy name of CSV_CATEGORY_MAP, alone in a record set, is counted
\* under its canonical label by the client report's category map
EveryLegacyNameMapped ==
    \A name \in DOMAIN CSV_CATEGORY_MAP :
        _distribution(<<[category |-> S(name)]>>, "category", ClientCategoryMap)
            = <<[k |-> CSV_CATEGORY_MAP[name], v |-> 1]>>

\* The rows whose category is a legacy name are counted under the label
\* CSV_CATEGORY_MAP gives it
LegacyNamesCounted ==
    \A r \in CollectedRows("category") :
        LET raw == Str(Get(all_attrs[r], "category"))
        IN  raw \in DOMAIN CSV_CATEGORY_MAP =>
                /\ raw \notin Keys(Dist(computed, "category_dist"))
                /\ DictGet(Dist(computed, "category_dist"),
                           CSV_CATEGORY_MAP[raw])
                       >= Cardinality({q \in CollectedRows("category") :
                              Str(Get(all_attrs[q], "category")) = raw})

C10_TokensCounted ==
    AnsweredAny =>
        /\ \A i \in 1..Len(computed) :
               computed[i].kind = "multi" =>
                   \E tokens \in {TokenSeq(all_attrs, computed[i].key)} :
                       /\ Keys(computed[i].dist)
                              = {tokens[j] : j \in 1..Len(tokens)}
                       /\ \A j \in 1..Len(computed[i].dist) :
                              computed[i].dist[j].v
                                  = Cardinality(Occurrences(tokens,
                                        computed[i].dist[j].k))
                       /\ SumValues(computed[i].dist) = Len(tokens)
        /\ (/\ Len(all_attrs) = 1
            /\ Get(all_attrs[1], "language") = S("Arabic, English, Arabic"))
               => Dist(computed, "language_dist")
                      = <<[k |-> "Arabic", v |-> 2], [k |-> "English", v |-> 1]>>

\* C10 witness: a report over the record whose language is
\* "Arabic, English, Arabic" and a record with an empty token.
C10_Witness ==
    /\ AnsweredAny
    /\ \E r \in 1..Len(all_attrs) :
           Get(all_attrs[r], "language") = S("Arabic, English, Arabic")
    /\ \E r \in 1..Len(all_attrs) :
           Get(all_attrs[r], "language") = S("English,,Urdu ")
    /\ Dist(computed, "language_dist")
           = <<[k |-> "Arabic", v |-> 2], [k |-> "English", v |-> 2],
               [k |-> "Urdu", v |-> 1]>>

\* An attachment function ran its batch loop to the end: it had a token
\* and no batch failed (a failed batch leaves the loop index short of the
\* list)
LoopCompleted ==
    /\ pc \in {"assemble", "done"}
    /\ token # None
    /\ offset >= Len(object_ids)

\* C11: when no batch fails, the attachment queries issued for n ids are
\* ceil(n/100) in number, none carries more than 100 ids, and query k
\* carries the ids at places 100(k-1)+1 .. min(100k, n) in order, so that
\* the queries cover every id once; while the loop runs, one query was
\* issued per 100 ids passed.
C11_BatchesCoverIdsOnce ==
    /\ pc = "batch" => Len(queries) * 100 = offset
    /\ LoopCompleted =>
           /\ Len(queries) = (Len(object_ids) + 99) \div 100
           /\ \A k \in 1..Len(queries) :
                  /\ Len(queries[k]) <= 100
                  /\ Len(queries[k])
                         = IF 100 * k <= Len(object_ids) THEN 100
                           ELSE Len(object_ids) - 100 * (k - 1)
                  /\ \A j \in 1..Len(queries[k]) :
                         queries[k][j] = object_ids[100 * (k - 1) + j]

\* C11 witness: 150 ids were queried in two batches of 100 and 50.
C11_Witness ==
    /\ LoopCompleted
    /\ Len(object_ids) = 150
    /\ Len(queries) = 2
    /\ Len(queries[1]) = 100
    /\ Len(queries[2]) = 50
    /\ queries[2][1] = 101

\* The ten core fields of the data-quality score
CoreFields ==
    {"name_ar", "name_en", "category", "secondary_category",
     "company_status", "phone_number", "website", "working_days",
     "working_hours_each_day", "social_media"}

RECURSIVE SumOver(_, _)
\* The sum of f over the set X
SumOver(f, X) ==
    IF X = {} THEN 0
    ELSE LET x == CHOOSE x \in X : TRUE
         IN  f[x] + SumOver(f, X \ {x})

\* The non-empty count of each core field in the record set
CoreCounts == [key \in CoreFields |-> Cardinality(CollectedRows(key))]

\* C12: in the styled report no quotient has a zero divisor; with no
\* records the overall score and every completion rate are 0; otherwise
\* the score is the sum of the ten core fields' non-empty counts over
\* 10 times the record count, times 100, and the rate of a core field is
\* its count over the record count, times 100.
C12_QualityScore ==
    Answered("client") =>
        /\ response.quality.overall.den # 0
        /\ Len(response.quality.rates) = Cardinality(CoreFields)
        /\ \A j \in 1..Len(response.quality.rates) :
               response.quality.rates[j].den # 0
        /\ IF Len(all_attrs) = 0
           THEN /\ response.quality.overall.num = 0
                /\ \A j \in 1..Len(response.quality.rates) :
                       response.quality.rates[j].num = 0
           ELSE /\ response.quality.overall.num * (10 * Len(all_attrs))
                       = SumOver(CoreCounts, CoreFields) * 100
                             * response.quality.overall.den
                /\ \A j \in 1..Len(response.quality.rates) :
                       response.quality.rates[j].num * Len(all_attrs)
                           = CoreCounts[quality_fields[j][2]] * 100
                                 * response.quality.rates[j].den

\* C12 witness: a styled report over no record at all.
C12_Witness ==
    /\ Answered("client")
    /\ Len(all_attrs) = 0
    /\ response.quality.overall = [num |-> 0, den |-> 1]

\* The handler asked for a token and got none (a request that failed
\* while loading never asked)
TokenUnavailable ==
    /\ pc \in {"assemble", "done"}
    /\ response.status # 500
    /\ token = None

\* C13: when the token cannot be obtained no id query and no attachment
\* query is issued, the attachment summary is all zero with an empty
\* keyword histogram, and the request, of either report, is answered 200
\* with 0 photos and 0 videos.
C13_NoTokenZeroMedia ==
    TokenUnavailable =>
        /\ queries = <<>>
        /\ object_ids = <<>>
        /\ AllZero(att)
        /\ pc = "done" =>
               /\ response.status = 200
               /\ response.total_photos = 0
               /\ response.total_videos = 0
               /\ response.total_pois = Len(all_attrs)

\* C13 witness: a styled report over stored records, answered without a
\* token while the feature service holds attachments.
C13_Witness ==
    /\ Answered("client")
    /\ token = None
    /\ Len(all_attrs) > 0
    /\ Len(svc.groups) > 0
    /\ response.total_photos = 0

\* A field that holds a value in the sense of the edge-case policy: it is
\* present, not None, not blank and not the text "None"
HoldsValue(attrs, key) ==
    /\ Collected(attrs, key)
    /\ Str(Get(attrs, key)) # "None"

RowsHolding(key) ==
    {r \in 1..Len(all_attrs) : HoldsValue(all_attrs[r], key)}

\* The count a metric of a section of the response shows (0 when the
\* section or the metric was left out)
Shown(title, name) ==
    IF \E k \in 1..Len(response.sections) :
           /\ response.sections[k].title = title
           /\ \E j \in 1..Len(response.sections[k].metrics) :
                  response.sections[k].metrics[j].name = name
    THEN LET k == CHOOSE k \in 1..Len(response.sections) :
                      response.sections[k].title = title
             j == CHOOSE j \in 1..Len(response.sections[k].metrics) :
                      response.sections[k].metrics[j].name = name
         IN  response.sections[k].metrics[j].n
    ELSE 0

\* C14: a field that is absent, empty, blank or the text "None" adds
\* nothing: every single-valued distribution sums to the number of rows
\* holding a value and has no "None" bucket, no multi-valued distribution
\* has a "None" token, and the JSON report's counts of Arabic names and of
\* notes are the numbers of rows holding a value.
C14_NoneTextCountsNothing ==
    /\ AnsweredAny =>
           \A i \in 1..Len(computed) :
               /\ "None" \notin Keys(computed[i].dist)
               /\ computed[i].kind = "single" =>
                      SumValues(computed[i].dist)
                          = Cardinality(RowsHolding(computed[i].key))
    /\ Answered("report") =>
           /\ Shown("1. Identity & Names", "names_arabic_collected")
                  = Cardinality(RowsHolding("name_ar"))
           /\ Shown("Notes", "submissions_with_notes")
                  = Cardinality(RowsHolding("general_notes"))

\* What client_report() computes for one of its distributions from the
\* record set of this request
StyledDist(name) ==
    ComputeOne(all_attrs,
               ClientDistributions[CHOOSE i \in 1..Len(ClientDistributions) :
                                       ClientDistributions[i][1] = name]).dist

\* The ids of the batches the service answered without an error
AnsweredIds ==
    SubSeq(object_ids, 1,
           IF offset < Len(object_ids) THEN offset ELSE Len(object_ids))

\* What _get_attachment_details() returns when the service gives it the
\* answers it gave in this request
StyledSummary == DetailGroups(NoAcc, GroupsOf(svc, AnsweredIds))

\* C15: over the same record set (no snapshot deployed) and the same
\* answers of the feature service, the JSON report shows the values the
\* styled report shows: the record count, the photo and video totals, the
\* category distribution and the count of phone numbers.
C15_RenderingsAgree ==
    (Answered("report") /\ ~csv_file.exists) =>
        /\ response.total_pois = Len(LiveAttrs(db))
        /\ Dist(computed, "category_dist") = StyledDist("category_dist")
        /\ Shown("8. Contact Info", "phone_numbers_collected")
               = ClientCounts(all_attrs, None).phone_count
        /\ response.total_photos = StyledSummary.total_photos
        /\ response.total_videos = StyledSummary.total_videos

\* The place of a section in the stated order identity, category, status,
\* license, location, building, hours, contact, language, media, cuisine,
\* payment, parking, accessibility, seating, entertainment,
\* smoking/waiting, prayer rooms, fasting-period services, ticketing,
\* notes; the sections outside that list have no place
StatedPlace ==
    "1. Identity & Names" :> 1 @@ "2. Category" :> 2
    @@ "3. Company Status" :> 3 @@ "4. Commercial License" :> 4
    @@ "5. Coordinates" :> 5 @@ "6. Building & Floor" :> 6
    @@ "10. Working Hours" :> 7 @@ "8. Contact Info" :> 8
    @@ "9. Language, Landmark & Pickup" :> 9
    @@ "11. Business Exterior Photos" :> 10
    @@ "12. Business Interior Photos" :> 10
    @@ "13. Interior Walkthrough Video" :> 10
    @@ "14. Physical Menu Photos" :> 10 @@ "15. Digital Menu / QR" :> 10
    @@ "16. Cuisine" :> 11 @@ "17. Payment Methods" :> 12
    @@ "18. Parking & Valet" :> 13 @@ "19. Accessibility & WiFi" :> 14
    @@ "20. Seating" :> 15 @@ "21. Entertainment" :> 16
    @@ "22. Smoking & Waiting" :> 17 @@ "23. Prayer Rooms" :> 18
    @@ "24. Iftar & Suhoor" :> 19 @@ "25. Attraction / Special" :> 20
    @@ "Notes" :> 21
    @@ "4. Identity & Contact Coverage" :> 1
    @@ "2. POI Category Analysis" :> 2 @@ "3. Business Status" :> 3
    @@ "5. Location & Coordinates" :> 5
    @@ "7. Working Hours Patterns" :> 7 @@ "8. Languages Spoken" :> 9
    @@ "13. Media Documentation" :> 10 @@ "9. Payment Methods" :> 12
    @@ "12. Ramadan Services" :> 19 @@ "15. General Notes" :> 21

\* The sections of a response stand in the stated order
InStatedOrder(sections) ==
    \A a, b \in 1..Len(sections) :
        (/\ a < b
         /\ sections[a].title \in DOMAIN StatedPlace
         /\ sections[b].title \in DOMAIN StatedPlace)
            => StatedPlace[sections[a].title] <= StatedPlace[sections[b].title]

\* C16: the sections of an assembled report, JSON or styled, stand in the
\* stated order, whichever of them were dropped as empty.
C16_SectionsInStatedOrder ==
    AnsweredAny => InStatedOrder(response.sections)

\* The order of the JSON report's sections
JsonOrder ==
    <<"Agents", "1. Identity & Names", "2. Category",
      "3. Company Status", "4. Commercial License", "5. Coordinates",
      "6. Building & Floor", "7. Entrance", "8. Contact Info",
      "9. Language, Landmark & Pickup", "10. Working Hours",
      "11. Business Exterior Photos", "12. Business Interior Photos",
      "13. Interior Walkthrough Video", "14. Physical Menu Photos",
      "15. Digital Menu / QR", "16. Cuisine", "17. Payment Methods",
      "18. Parking & Valet", "19. Accessibility & WiFi", "20. Seating",
      "21. Entertainment", "22. Smoking & Waiting", "23. Prayer Rooms",
      "24. Iftar & Suhoor", "25. Attraction / Special", "Notes">>

\* The order of the styled report's section blocks
StyledOrder ==
    <<"1. Agent Performance", "2. POI Category Analysis",
      "3. Business Status", "4. Identity & Contact Coverage",
      "5. Location & Coordinates", "6. Building & Floor",
      "7. Working Hours Patterns", "8. Languages Spoken",
      "9. Payment Methods", "10. Restaurant & F&B Analysis",
      "11. Facilities & Amenities", "12. Ramadan Services",
      "13. Media Documentation", "14. Data Quality Assessment",
      "15. General Notes">>

RECURSIVE IsSubsequence(_, _)
\* a is b with some elements left out
IsSubsequence(a, b) ==
    IF a = <<>> THEN TRUE
    ELSE IF b = <<>> THEN FALSE
    ELSE IF Head(a) = Head(b) THEN IsSubsequence(Tail(a), Tail(b))
    ELSE IsSubsequence(a, Tail(b))

TitlesInOrder(sections) == [k \in 1..Len(sections) |-> sections[k].title]

\* C16 amended: the sections of the JSON report stand in the fixed order
\* agents, identity, category, status, license, coordinates, building,
\* entrance, contact, language, hours, media, cuisine, payment, parking,
\* accessibility, seating, entertainment, smoking/waiting, prayer rooms,
\* iftar/suhoor, attraction, notes, and the blocks of the styled report
\* in its own fixed order; the sections left after the empty ones are
\* dropped keep that order.
C16_SectionsInFixedOrder ==
    /\ Answered("report") =>
           IsSubsequence(TitlesInOrder(response.sections), JsonOrder)
    /\ Answered("client") =>
           IsSubsequence(TitlesInOrder(response.sections), StyledOrder)

\* C16 witness: a JSON report with the contact section before the hours
\* section and sections dropped between the ones emitted.
C16_Witness ==
    /\ Answered("report")
    /\ {"8. Contact Info", "10. Working Hours", "16. Cuisine"}
           \subseteq Titles(response.sections)
    /\ "7. Entrance" \notin Titles(response.sections)
    /\ "11. Business Exterior Photos" \notin Titles(response.sections)

\* The snapshot file exists but cannot be decoded, or has a row shorter
\* than its header
Malformed(file) ==
    /\ file.exists
    /\ \/ ~file.readable
       \/ \E i \in 1..Len(file.rows) :
              \E c \in DOMAIN file.rows[i] : file.rows[i][c] = None

\* C17: a client-report request made while the snapshot file is malformed
\* or unreadable is answered 200 from the live store, as when the file is
\* missing.
C17_MalformedSnapshotFallsBack ==
    (handler = "client" /\ pc = "done" /\ Malformed(csv_file)) =>
        /\ response.status = 200
        /\ db_queried
        /\ all_attrs = LiveAttrs(db)

\* C18: a request is answered once, when it is done, either with a whole
\* report (200) or, when the store cannot be reached or another fault
\* occurs, with one failure (500) that carries the error indicator and no
\* report content: no section, no total, nothing aggregated.
C18_FailureCarriesNoReport ==
    /\ pc # "done" => response = NoResponse
    /\ pc = "done" =>
           /\ response.status \in {200, 500}
           /\ response.status = 500 =>
                  /\ response.kind = "error"
                  /\ response.sections = <<>>
                  /\ response.total_pois = 0
                  /\ response.total_photos = 0
                  /\ response.total_videos = 0
                  /\ computed = <<>>
           /\ response.status = 200 =>
                  /\ response.kind = (IF handler = "report" THEN "json"
                                      ELSE "html")
                  /\ response.total_pois = Len(all_attrs)
                  /\ computed # <<>>

\* C18 witness: /report fails on the store while the store holds rows.
C18_Witness ==
    /\ pc = "done"
    /\ handler = "report"
    /\ response.status = 500
    /\ Len(db) > 0
    /\ db_queried

\* The places of the id answer that hold an id, not a null
IdsProper == {i \in 1..Len(object_ids) : object_ids[i] # NullId}

\* C19: no attachment query carries a null id; nulls do not count toward
\* the 100 ids of a batch, so a loop that ran to the end issued
\* ceil(m/100) queries for m ids proper; and the number of ids reported
\* as queried is m.
C19_NullIdsRemoved ==
    /\ \A k \in 1..Len(queries) :
           \A j \in 1..Len(queries[k]) : queries[k][j] # NullId
    /\ LoopCompleted =>
           Len(queries) = (Cardinality(IdsProper) + 99) \div 100
    /\ (Answered("client") /\ LoopCompleted) =>
           att.total_pois_queried = Cardinality(IdsProper)

\* The raw values that are keys of both category tables
CollidingKeys == DOMAIN CATEGORY_LABELS \cap DOMAIN CSV_CATEGORY_MAP

\* Every colliding key gets the coded table's label from the merged table
CollisionsGetCodedLabel ==
    \A raw \in CollidingKeys :
        /\ ClientCategoryMap[raw] = CATEGORY_LABELS[raw]
        /\ _distribution(<<[category |-> S(raw)]>>, "category",
                         ClientCategoryMap)
               = <<[k |-> CATEGORY_LABELS[raw], v |-> 1]>>

\* C20: in the client report a raw category that is a key of both
\* CATEGORY_LABELS and CSV_CATEGORY_MAP is counted under the label
\* CATEGORY_LABELS gives it, and under no other.
C20_CodedLabelOnCollision ==
    /\ CollisionsGetCodedLabel
    /\ Answered("client") =>
           \A r \in CollectedRows("category") :
               CategoryValues[r] \in CollidingKeys =>
                   RowsUnder([key |-> "category", map |-> "client_category"],
                             CATEGORY_LABELS[CategoryValues[r]]) # {}
                   /\ DictGet(Dist(computed, "category_dist"),
                              CATEGORY_LABELS[CategoryValues[r]])
                          = Cardinality({q \in CollectedRows("category") :
                                Label(CategoryValues[q], ClientCategoryMap)
                                    = CATEGORY_LABELS[CategoryValues[r]]})

\* C20 witness: a client report over a record whose category "restaurants"
\* is a key of both tables.
C20_Witness ==
    /\ Answered("client")
    /\ "restaurants" \in CollidingKeys
    /\ \E r \in 1..Len(all_attrs) : CategoryValues[r] = "restaurants"
    /\ "Restaurants" \in Keys(Dist(computed, "category_dist"))

\* Nothing of an earlier request is left when no request is being served
NothingKept ==
    /\ handler = "none"
    /\ all_attrs = <<>>
    /\ csv_data = None
    /\ ~db_queried
    /\ token = None
    /\ object_ids = <<>>
    /\ offset = 0
    /\ queries = <<>>
    /\ acc = NoAcc
    /\ att = NotReturned
    /\ computed = <<>>
    /\ response = NoResponse

\* What _get_attachment_counts() counts when the service gives it the
\* answers it gave in this request: nothing unless every batch was answered
CountedSummary ==
    IF token # None /\ offset >= Len(object_ids)
    THEN CountGroups(NoAcc, GroupsOf(svc, object_ids))
    ELSE NoAcc

QueriesInIdOrder ==
    \A k \in 1..Len(queries) :
        /\ (k - 1) * batch_size < Len(object_ids)
        /\ queries[k] = Batch(object_ids, (k - 1) * batch_size, batch_size)

\* A batch failed: the loop was left with ids not yet answered
BatchFailed ==
    /\ pc \in {"assemble", "done"}
    /\ queries # <<>>
    /\ offset < Len(object_ids)

\* The queries sent are those of the answered batches and, after a
\* failure, the failed one
OneQueryPerBatch ==
    /\ pc = "batch" => Len(queries) * batch_size = offset
    /\ BatchFailed => (Len(queries) - 1) * batch_size = offset
    /\ LoopCompleted /\ queries # <<>>
           => (Len(queries) - 1) * batch_size < Len(object_ids)
              /\ Len(queries) * batch_size >= Len(object_ids)

\* A step that sends a query sends one, the next slice, inside the loop
QueryStep ==
    queries' # queries =>
        \/ /\ pc = "batch"
           /\ queries' = Append(queries,
                                Batch(object_ids, Len(queries) * batch_size,
                                      batch_size))
        \/ pc = "done" /\ queries' = <<>>

\* The token changes only where it is requested, and when the request ends
TokenStep ==
    token' # token => \/ pc = "token" /\ pc' # "token"
                      \/ pc = "done" /\ token' = None

\* Once the attachment function has returned, no query and no token request
NothingAfterReturn ==
    (pc \in {"assemble", "done"} /\ pc' # "idle")
        => (queries' = queries /\ token' = token)

\* C22: in one reconciliation the attachment queries go out one at a time
\* in id order (query k is the k-th slice of 100), each batch is sent at
\* most once, the token is requested at most once, and after a failed
\* batch no further query is sent.
C22_SequentialNoRetry ==
    /\ [](QueriesInIdOrder /\ OneQueryPerBatch)
    /\ [][QueryStep /\ TokenStep /\ NothingAfterReturn]_vars

\* C22 witness: the second of three batches failed; two queries were sent
C22_Witness ==
    /\ BatchFailed
    /\ Len(object_ids) > 2 * batch_size
    /\ Len(queries) = 2
    /\ offset = batch_size

\* C23: in the JSON report, when a batch fails (error payload or raised
\* call) the photos and videos counted from the earlier batches are
\* discarded: the function returns (None, None) and the report shows 0
\* photos and 0 videos, whichever batch failed.
C23_CountsDiscardedOnFailure ==
    (handler = "report" /\ BatchFailed) =>
        /\ att.none
        /\ PhotosOrZero(att) = 0
        /\ VideosOrZero(att) = 0
        /\ pc = "done" => /\ response.status = 200
                          /\ response.total_photos = 0
                          /\ response.total_videos = 0

\* C23 witness: the second batch of the JSON report failed after the first
\* had counted photos, and the report shows none.
C23_Witness ==
    /\ Answered("report")
    /\ BatchFailed
    /\ offset >= batch_size
    /\ acc.total_photos > 0
    /\ response.total_photos = 0

\* The counts of the attachments of the first n batches of this request
SummaryOfBatches(n) ==
    DetailGroups(NoAcc,
                 GroupsOf(svc, SubSeq(object_ids, 1,
                                      IF n * details_batch_size
                                             < Len(object_ids)
                                      THEN n * details_batch_size
                                      ELSE Len(object_ids))))

RECURSIVE IdsSent(_)
\* The number of ids carried by the attachment queries sent
IdsSent(qs) == IF qs = <<>> THEN 0 ELSE Len(Head(qs)) + IdsSent(Tail(qs))

\* C25: the summary's total_pois_queried of the styled report equals the
\* number of ids sent in the attachment queries of that request, in every
\* outcome, a batch failure included.
C25_QueriedIsSent ==
    (handler = "client" /\ pc \in {"assemble", "done"})
        => att.total_pois_queried = IdsSent(queries)

RECURSIVE InfosOf(_)
\* The attachments of a list of groups, in order
InfosOf(groups) ==
    IF groups = <<>> THEN <<>>
    ELSE Head(groups).attachmentInfos \o InfosOf(Tail(groups))

\* The attachments of the batches answered so far in this request
ProcessedInfos == InfosOf(GroupsOf(svc, AnsweredIds))

\* The bucket the statement gives an attachment: its tag, or "other" when
\* the tag is absent or empty
StatedBucket(info) ==
    IF "keywords" \notin DOMAIN info \/ info.keywords \in {None, S("")}
    THEN "other"
    ELSE info.keywords[1]

\* C26: every attachment processed adds one to exactly one keyword bucket
\* (its tag, or "other" when the tag is absent or empty) and to at most
\* one of the photo and video totals (photo for image/ content types,
\* video for video/ ones, in any letter case, neither otherwise); the
\* histogram's total is the number of attachments processed and is at
\* least photos plus videos.
C26_OneBucketPerAttachment ==
    \E infos \in {ProcessedInfos} :
      \E photos \in {Cardinality({i \in 1..Len(infos) : IsPhoto(infos[i])})} :
        \E videos \in
              {Cardinality({i \in 1..Len(infos) : IsVideo(infos[i])})} :
            /\ photos + videos <= Len(infos)
            /\ handler \in {"report", "client"} =>
                   /\ acc.total_photos = photos
                   /\ acc.total_videos = videos
            /\ handler = "client" =>
                   /\ SumValues(acc.by_keyword) = Len(infos)
                   /\ SumValues(acc.by_keyword)
                          >= acc.total_photos + acc.total_videos
                   /\ Keys(acc.by_keyword)
                          = {StatedBucket(infos[i]) : i \in 1..Len(infos)}
                   /\ \A b \in Keys(acc.by_keyword) :
                          DictGet(acc.by_keyword, b)
                              = Cardinality({i \in 1..Len(infos) :
                                                StatedBucket(infos[i]) = b})
                   /\ pc \in {"assemble", "done"} /\ token # None =>
                          /\ att.by_keyword = acc.by_keyword
                          /\ att.total_photos = photos
                          /\ att.total_videos = videos

\* C26 witness: a styled report that processed attachments without a tag,
\* with an empty tag and without a content type.
C26_Witness ==
    /\ Answered("client")
    /\ DictGet(att.by_keyword, "other") >= 2
    /\ SumValues(att.by_keyword) > att.total_photos + att.total_videos
    /\ att.total_videos > 0

\* The trimmed text of a cell of the file, "" for a column the row lacks
TrimmedText(row, csv_col) ==
    IF csv_col \in DOMAIN row THEN Strip(row[csv_col][1]) ELSE ""

\* The value the statement gives a field: empty for a missing or blank
\* cell, "N/A" and "#ERROR!"; the lowercase token for a yes/no in any case;
\* else the trimmed text
StatedValue(row, csv_col) ==
    LET text == TrimmedText(row, csv_col)
    IN  IF text \in {"", "N/A", "#ERROR!"} THEN ""
        ELSE IF Lower(text) \in {"yes", "no"} THEN Lower(text)
        ELSE text

\* The column a field name is read from
StatedColumn(attr_key) ==
    CHOOSE c \in DOMAIN CSV_COL_MAP : CSV_COL_MAP[c] = attr_key

\* The records of the statement, for each file the loader reads through
StatedRecords ==
    [f \in {g \in SnapshotFiles : g.exists /\ ~Malformed(g)} |->
        [i \in 1..Len(f.rows) |->
            [attr_key \in Range(CSV_COL_MAP) |->
                S(StatedValue(f.rows[i], StatedColumn(attr_key)))]]]

\* The same, with the category of a "caf..." cell being "Cafe"
StatedRecordsWithCafe ==
    [f \in DOMAIN StatedRecords |->
        [i \in 1..Len(f.rows) |->
            [attr_key \in Range(CSV_COL_MAP) |->
                IF attr_key = "category"
                   /\ StartsWith(Lower(StatedRecords[f][i][attr_key][1]),
                                 "caf")
                THEN S("Cafe")
                ELSE StatedRecords[f][i][attr_key]]]]

\* No value is "N/A", "#ERROR!" or a yes/no that is not lowercase
NoSentinel(records) ==
    \A i \in 1..Len(records) : \A k \in DOMAIN records[i] :
        /\ records[i][k] \notin {S("N/A"), S("#ERROR!")}
        /\ Lower(records[i][k][1]) \in {"yes", "no"}
               => records[i][k][1] \in {"yes", "no"}

\* C27: every record the snapshot loader produces has exactly the field
\* names of the column mapping, and each value is empty (column missing,
\* blank, "N/A", "#ERROR!") or the trimmed cell text with yes/no in any
\* case made lowercase; no value is "N/A", "#ERROR!" or a non-lowercase
\* yes/no.
C27_LoaderValues ==
    csv_data # None =>
        /\ csv_data[1] = StatedRecords[csv_file]
        /\ NoSentinel(csv_data[1])

\* C27 amended: as C27, except that the category of a record whose cell
\* begins with "caf" in any letter case is the token "Cafe".
C27_LoaderValuesWithCafe ==
    csv_data # None =>
        /\ csv_data[1] = StatedRecordsWithCafe[csv_file]
        /\ \A i \in 1..Len(csv_data[1]) :
               DOMAIN csv_data[1][i] = Range(CSV_COL_MAP)
        /\ NoSentinel(csv_data[1])

\* C27 witness: a snapshot was loaded whose cells held "N/A", "#ERROR!",
\* "YES", a padded name, a blank and a "caf..." category.
C27_Witness ==
    /\ csv_data # None
    /\ Len(csv_data[1]) = 2
    /\ csv_file.rows[1] = CsvRow1
    /\ csv_data[1][1]["phone_number"] = S("")
    /\ csv_data[1][1]["website"] = S("")
    /\ csv_data[1][1]["dine_in"] = S("yes")
    /\ csv_data[1][1]["agent_name"] = S("Ali")
    /\ csv_data[1][1]["working_days"] = S("")
    /\ csv_data[1][1]["category"] = S("Cafe")

\* The rows of the deployed file whose category cell begins with "caf" in
\* any letter case
CafRows ==
    {i \in 1..Len(csv_file.rows) :
        StartsWith(Lower(TrimmedText(csv_file.rows[i], "Category")), "caf")}

\* The rows of the deployed file whose category is counted under a label
CategoryRowsUnder(label) ==
    {i \in 1..Len(csv_file.rows) :
        \/ i \in CafRows /\ label = "Restaurants"
        \/ /\ i \notin CafRows
           /\ StatedValue(csv_file.rows[i], "Category") # ""
           /\ Expected(StatedValue(csv_file.rows[i], "Category"),
                       ClientCategoryMap) = label}

\* C28: in snapshot-sourced records a category beginning with "caf" in
\* any letter case has become the one token "Cafe" before aggregation: no
\* other "caf..." category is in the record set or the distribution, and
\* the records are all counted under "Restaurants" in the client report.
C28_CafBecomesCafe ==
    (handler = "client" /\ csv_data # None) =>
        /\ \A i \in 1..Len(all_attrs) :
               /\ i \in CafRows => all_attrs[i]["category"] = S("Cafe")
               /\ StartsWith(Lower(all_attrs[i]["category"][1]), "caf")
                      => all_attrs[i]["category"] = S("Cafe")
        /\ Answered("client") =>
               \E dist \in {Dist(computed, "category_dist")} :
                   /\ \A k \in Keys(dist) : ~StartsWith(Lower(k), "caf")
                   /\ DictGet(dist, "Restaurants")
                          = Cardinality(CategoryRowsUnder("Restaurants"))

\* C28 witness: a styled report over a snapshot with the categories
\* "CAFETERIA" and " Caffe Nero ", both counted under "Restaurants".
C28_Witness ==
    /\ Answered("client")
    /\ csv_data # None
    /\ Cardinality(CafRows) = 2
    /\ Dist(computed, "category_dist") = <<[k |-> "Restaurants", v |-> 2]>>

\* The per-record counters of a summary are within its totals and within
\* the number of groups processed, and nothing is negative
CountersWithin(summary, groups) ==
    /\ summary.total_photos >= 0
    /\ summary.total_videos >= 0
    /\ summary.pois_with_photos >= 0
    /\ summary.pois_with_videos >= 0
    /\ summary.total_pois_queried >= 0
    /\ \A i \in 1..Len(summary.by_keyword) : summary.by_keyword[i].v > 0
    /\ summary.pois_with_photos <= summary.total_photos
    /\ summary.pois_with_videos <= summary.total_videos
    /\ summary.pois_with_photos <= groups
    /\ summary.pois_with_videos <= groups

\* C29: in every attachment summary, after any number of processed
\* batches, records-with-photos <= total photos, records-with-videos <=
\* total videos, both are at most the number of groups processed, and no
\* counter is negative.
C29_PerRecordCountersBounded ==
    \E groups \in {Len(GroupsOf(svc, AnsweredIds))} :
        /\ CountersWithin(acc, groups)
        /\ pc \in {"assemble", "done"} => CountersWithin(att, groups)

\* C29 witness: a styled summary over three batches in which a group held
\* two photos and another group held neither photo nor video.
C29_Witness ==
    /\ Answered("client")
    /\ offset > 2 * details_batch_size
    /\ att.pois_with_photos > 0
    /\ att.pois_with_photos < att.total_photos
    /\ att.pois_with_photos < Len(GroupsOf(svc, AnsweredIds))
    /\ att.pois_with_videos > 0

\* A fraction num/den that lies between 0 and 100 inclusive
WithinPercent(q) ==
    /\ q.den > 0
    /\ q.num >= 0
    /\ q.num <= 100 * q.den

\* C30: for every record set, live or from the snapshot, the overall
\* data-quality score and each per-field completion rate of the client
\* report lie between 0 and 100 inclusive, each core field's non-empty
\* count being at most the record count.
C30_ScoreWithinPercent ==
    Answered("client") =>
        /\ WithinPercent(response.quality.overall)
        /\ \A j \in 1..Len(response.quality.rates) :
               /\ WithinPercent(response.quality.rates[j])
               /\ CoreCounts[quality_fields[j][2]] <= Len(all_attrs)
               /\ response.quality.rates[j].num * Len(all_attrs)
                      <= 100 * Len(all_attrs) * response.quality.rates[j].den

\* C30 witness: a styled report over snapshot records: the phone count
\* shown is the record count, the phone rate measured is 0, a rate of 100
\* occurs and the overall score is strictly between 0 and 100.
C30_Witness ==
    /\ Answered("client")
    /\ csv_data # None
    /\ Len(all_attrs) = 2
    /\ ClientCounts(all_attrs, csv_data).phone_count = 2
    /\ response.quality.rates[6].num = 0
    /\ \E j \in 1..Len(response.quality.rates) :
           response.quality.rates[j].num = 100 * response.quality.rates[j].den
    /\ response.quality.overall.num > 0
    /\ response.quality.overall.num < 100 * response.quality.overall.den

====
